---- MODULE Spec2Model ----
(***************************************************************************)
(* A model of the reactivity core (targetMap / Dep / ReactiveEffect /      *)
(* computed) and of the tick scheduler of vue-source-code.                 *)
(*                                                                         *)
(* The JavaScript is single threaded and synchronous.  Code that the       *)
(* library calls back (an effect's fn, a scheduler job) is modelled by a   *)
(* control stack: the top frame says which callback is executing, and the  *)
(* steps such a callback may take (read a key, write a key, stop an        *)
(* effect, return) are the actions.  Everything the library does between   *)
(* two callback steps is one action.                                       *)
(***************************************************************************)
EXTENDS Integers, Sequences, FiniteSets, TLC

(***************************************************************************)
(* Bounds of the model.                                                    *)
(***************************************************************************)
MaxDeps == 6      \* Dep objects alive at once
MaxOps == 1       \* writes / runner calls / stops issued by user code
MaxOpsSelf == 3   \* the same, in the scene of the self-triggering effect
MaxDepth == 3     \* nesting of callbacks
MaxSchedOps == 4  \* scheduler calls issued by user code (tasks, jobs, callbacks)
MaxLoopOps == 1   \* the same, in the scene of the self-enqueuing job
MaxPreOps == 5    \* the same, in the scene of flushPreFlushCbs
MaxInvoked == 103 \* invocations of one job in one flush (reached without __DEV__ only)
MaxCompOps == 4   \* reads / writes / runner calls issued by the task, in the computed scenes
MaxVal == 2         \* the values of a reactive property are 0..MaxVal
MaxTicks == 2       \* nextTick calls

(***************************************************************************)
(* The reactive properties of the one target, and the effects.             *)
(***************************************************************************)
Keys == {"a", "b"}
PlainEffects == {"e1", "e2"}

\* The computed refs; the ReactiveEffect of a computed bears its name.
\*   y = computed(() => o.a % 2)
\*   z = computed(() => y.value + 1)
\*   s = computed(() => o.b++)      a getter that writes what it reads
Computeds == {"y", "z", "s"}
Effects == PlainEffects \cup Computeds
NoEffect == "none"
NoKey == "none"
Undefined == -1
DepIds == 1..MaxDeps

\* e2 was created with { allowRecurse: true }
allowRecurse(e) == e = "e2"

\* every effect made by effect() has the default scheduler
hasScheduler(e) == e \in PlainEffects

(***************************************************************************)
(* DirtyLevels                                                             *)
(***************************************************************************)
NotDirty == 0
QueryingDirty == 1
MaybeDirty_ComputedSideEffect == 2
MaybeDirty == 3
Dirty == 4

VARIABLES
    targetMap,              \* key -> Dep id (0: no entry) of the target's depsMap
    dep,                    \* Dep id -> [key, m]: m is the Map effect -> trackId, in insertion order
    eff,                    \* effect -> the ReactiveEffect's fields
    scene,                  \* which program runs: "track" (two effects) or "self" (one)
    activeEffect,
    shouldTrack,
    pauseScheduleStack,
    queueEffectSchedulers,  \* the effects whose scheduler is pending
    stack,                  \* the callbacks in progress, innermost last
    ops,                    \* user operations issued so far
    cleaned,                \* history: the Deps whose cleanup() the last action called
    pushed,                 \* history: the effects whose scheduler the last action enqueued while they ran
    drained,                \* history: pauseScheduleStack at the calls of schedulers in the last action
    ran,                    \* history: the effects whose run() the last action called, in order
    runs,                   \* history: effect -> what its completed runs read (see NoRuns)
    ext                     \* history: the top level write being processed (see NoExt)

VARIABLES
    val,                    \* key -> the value of the reactive property
    cref,                   \* computed -> the ComputedRefImpl's fields (dep: 0 is undefined)
    trackStack,
    hist                    \* history: computed -> its reads and getter calls (see NoHist)

VARIABLES
    dev,                    \* __DEV__: the build checks recursive updates
    isFlushing,
    isFlushPending,
    queue,                  \* SchedulerJob[], as job names
    flushIndex,
    pendingPostFlushCbs,
    activePostFlushCbs,     \* <<>> stands for null (the array is never empty)
    postFlushIndex,
    microtasks,             \* flushJobs microtasks scheduled and not yet started
    currentFlushPromise,    \* FALSE stands for null
    ticks,                  \* the callbacks given to nextTick, see nextTick
    postRan,                \* history: the callbacks the loop of flushPostFlushCbs has called
    postBounds,             \* history: the lengths of activePostFlushCbs at the nested calls
    errors,                 \* history: the errors of jobs given to handleError in the current flush
    invalidated,            \* history: the invalidateJob call of the last step, if it was one
    watcher,                \* the watcher made by watch(): options, effect, oldValue, history
    seen,                   \* the CountMap of the flush in progress (0: no entry)
    jobActive,              \* job.active
    calls,                  \* the scheduler's calls in progress, innermost last
    sops,                   \* scheduler calls issued by user code so far
    invoked,                \* history: job -> invocations in the current flush
    reported,               \* history: job -> recursion errors reported in the current flush
    requeued,               \* history: insertions of a job already invoked in the current flush
    selfCalled,             \* history: jobs that called queueJob on themselves in the current flush
    maxId,                  \* history: the largest id of a job invoked in the current flush
    owed                    \* history: ids whose pre job a mutation queued together with the render job

svars == <<dev, isFlushing, isFlushPending, queue, flushIndex, pendingPostFlushCbs,
           activePostFlushCbs, postFlushIndex, microtasks, currentFlushPromise, ticks,
           postRan, postBounds, errors, invalidated, watcher,
           seen, jobActive, calls,
           sops, invoked, reported, requeued, selfCalled, maxId, owed>>

rvars == <<scene, targetMap, dep, eff, activeEffect, shouldTrack, pauseScheduleStack,
           queueEffectSchedulers, stack, ops, cleaned, pushed, drained, ran, runs, ext>>

cvars == <<val, cref, trackStack, hist>>

vars == <<rvars, cvars, svars>>

(***************************************************************************)
(* The heap: the reactive state as one record, so that the library's       *)
(* functions are operators from heap to heap.                              *)
(***************************************************************************)
Heap ==
    [targetMap |-> targetMap, dep |-> dep, eff |-> eff,
     activeEffect |-> activeEffect, shouldTrack |-> shouldTrack,
     pauseScheduleStack |-> pauseScheduleStack,
     queueEffectSchedulers |-> queueEffectSchedulers,
     cleaned |-> <<>>, pushed |-> {}, drained |-> {}, ran |-> <<>>,
     val |-> val, cref |-> cref, trackStack |-> trackStack, hist |-> hist]

FreeDep == [key |-> NoKey, m |-> <<>>]

\* new ReactiveEffect(fn, trigger, scheduler); history: pushes, the times
\* the scheduler was pushed since _dirtyLevel was last assigned NotDirty
\* (capped at 2), twice, whether it ever was pushed a second time, and again,
\* whether the effect ever was notified after the push; queried, the
\* levels at which a walk of the dirty getter of the effect ended, and
\* untracked, whether one ended with another shouldTrack than it began with
NewEffect ==
    [active |-> TRUE, deps |-> <<>>, depsLength |-> 0, trackId |-> 0,
     runnings |-> 0, dirtyLevel |-> Dirty, shouldSchedule |-> FALSE,
     pushes |-> 0, twice |-> FALSE, again |-> FALSE,
     queried |-> {}, untracked |-> FALSE]

\* history: the dirty getter of e, entered with the heap h0, returns
NoteQuery(h, e, h0) ==
    [h EXCEPT !.eff[e].queried = @ \cup {h.eff[e].dirtyLevel},
              !.eff[e].untracked = @ \/ h.shouldTrack # h0.shouldTrack]

\* history: _dirtyLevel of e is assigned NotDirty
NoteReset(h, e) == [h EXCEPT !.eff[e].pushes = 0]

\* history: a turn of the loop of triggerEffects for the effect e
NoteNotified(h, e) == [h EXCEPT !.eff[e].again = @ \/ h.eff[e].pushes >= 1]

\* new ComputedRefImpl(getter, setter, isReadonly, isSSR)
NewComputed(isSSR) == [dep |-> 0, value |-> Undefined, cacheable |-> ~isSSR]

(***************************************************************************)
(* Map operations on a Dep's entries (a sequence of [e, id]).              *)
(***************************************************************************)
MapHas(m, e) == \E i \in 1..Len(m) : m[i].e = e

MapGet(m, e) ==
    IF MapHas(m, e) THEN m[CHOOSE i \in 1..Len(m) : m[i].e = e].id ELSE Undefined

MapSet(m, e, id) ==
    IF MapHas(m, e)
    THEN [i \in 1..Len(m) |-> IF m[i].e = e THEN [e |-> e, id |-> id] ELSE m[i]]
    ELSE Append(m, [e |-> e, id |-> id])

MapDelete(m, e) == SelectSeq(m, LAMBDA x : x.e # e)

(***************************************************************************)
(* Dep objects.  A Dep that nothing references any more is garbage; its    *)
(* slot is blanked so that it can hold the next Dep created.               *)
(***************************************************************************)
Referenced(h, d) ==
    \/ \E k \in Keys : h.targetMap[k] = d
    \/ \E c \in Computeds : h.cref[c].dep = d
    \/ \E e \in Effects : \E i \in 1..Len(h.eff[e].deps) : h.eff[e].deps[i] = d

Collect(h) ==
    [h EXCEPT !.dep = [d \in DepIds |-> IF Referenced(h, d) THEN h.dep[d] ELSE FreeDep]]

HasFreeDep(h) == \E d \in DepIds : ~Referenced(h, d)

\* createDep(cleanup): a new, empty Dep for key
createDep(h, key) ==
    LET new(d) == [id |-> d, h |-> [h EXCEPT !.dep[d] = [key |-> key, m |-> <<>>]]]
    IN  new(CHOOSE x \in DepIds : ~Referenced(h, x) /\ \A y \in DepIds : x <= y \/ Referenced(h, y))

\* dep.cleanup(): the closure track() gave createDep, () => depsMap.delete(key),
\* or the one trackRefValue gave it, () => (ref.dep = undefined)
cleanup(h, d) ==
    IF h.dep[d].key \in Computeds
    THEN [h EXCEPT !.cref[h.dep[d].key].dep = 0, !.cleaned = Append(@, d)]
    ELSE [h EXCEPT !.targetMap[h.dep[d].key] = 0, !.cleaned = Append(@, d)]

\* cleanupDepEffect without the call of dep.cleanup()
cleanupDepEffect_NoCleanup(h, d, e) ==
    LET test(trackId) ==
            IF trackId # Undefined /\ h.eff[e].trackId # trackId
            THEN [h EXCEPT !.dep[d].m = MapDelete(@, e)]
            ELSE h
    IN  test(MapGet(h.dep[d].m, e))

cleanupDepEffect(h, d, e) ==
    LET deleted(h1) == IF Len(h1.dep[d].m) = 0 THEN cleanup(h1, d) ELSE h1
        test(trackId) ==
            IF trackId # Undefined /\ h.eff[e].trackId # trackId
            THEN deleted([h EXCEPT !.dep[d].m = MapDelete(@, e)])
            ELSE h
    IN  test(MapGet(h.dep[d].m, e))

preCleanupEffect(h, e) ==
    [h EXCEPT !.eff[e].trackId = @ + 1, !.eff[e].depsLength = 0]

RECURSIVE postCleanupLoop(_, _, _)
postCleanupLoop(h, e, i) ==
    IF i > Len(h.eff[e].deps) THEN h
    ELSE postCleanupLoop(cleanupDepEffect(h, h.eff[e].deps[i], e), e, i + 1)

postCleanupEffect(h, e) ==
    IF Len(h.eff[e].deps) > h.eff[e].depsLength
    THEN LET truncate(h1) == [h1 EXCEPT !.eff[e].deps = SubSeq(@, 1, h1.eff[e].depsLength)]
         IN  truncate(postCleanupLoop(h, e, h.eff[e].depsLength + 1))
    ELSE h

\* effect.deps[effect._depsLength++] = dep
SetDepAt(deps, n, d) ==
    IF n + 1 <= Len(deps) THEN [deps EXCEPT ![n + 1] = d] ELSE Append(deps, d)

trackEffect(h, e, d) ==
    IF MapGet(h.dep[d].m, e) # h.eff[e].trackId
    THEN LET n == h.eff[e].depsLength
             store(h2) == [h2 EXCEPT !.eff[e].deps = SetDepAt(@, n, d),
                                     !.eff[e].depsLength = n + 1]
             replace(h1, oldDep) ==
                 IF oldDep # d
                 THEN store(IF oldDep # 0 THEN cleanupDepEffect(h1, oldDep, e) ELSE h1)
                 ELSE [h1 EXCEPT !.eff[e].depsLength = n + 1]
         IN  replace([h EXCEPT !.dep[d].m = MapSet(@, e, h.eff[e].trackId)],
                     IF n + 1 <= Len(h.eff[e].deps) THEN h.eff[e].deps[n + 1] ELSE 0)
    ELSE h

track(h, key) ==
    IF h.shouldTrack /\ h.activeEffect # NoEffect
    THEN LET created(n) == [id |-> n.id, h |-> [n.h EXCEPT !.targetMap[key] = n.id]]
             link(c) == trackEffect(c.h, h.activeEffect, c.id)
         IN  link(IF h.targetMap[key] = 0
                  THEN created(createDep(h, key))
                  ELSE [id |-> h.targetMap[key], h |-> h])
    ELSE h

(***************************************************************************)
(* Scheduling handoff.                                                     *)
(***************************************************************************)
pauseScheduling(h) == [h EXCEPT !.pauseScheduleStack = @ + 1]

\* The scenes of the computed refs: the fns there are fixed programs, and
\* the while loop of resetScheduling runs inside the action that reaches it.
CompScenes == {"chain", "side", "ssr"}
Inline == scene \in CompScenes

\* A call of one of the functions that call each other in a cycle: f names
\* the function, h is the heap, x and y are its arguments.
RECURSIVE call(_, _, _, _)

\* the while loop of resetScheduling
drainLoop(h) == call("drainLoop", h, 0, 0)

\* resetScheduling decrements; its while loop, which calls the pending
\* schedulers, is drainLoop where the fns are fixed programs, and the
\* "drain" frame of the control stack where they are steps of user code.
resetScheduling(h) ==
    LET h1 == [h EXCEPT !.pauseScheduleStack = @ - 1]
    IN  IF Inline THEN drainLoop(h1) ELSE h1

triggerEffects(h, d, dirtyLevel) == call("triggerEffects", h, d, dirtyLevel)

\* triggerRefValue(ref, dirtyLevel)
triggerRefValue(h, c, dirtyLevel) ==
    IF h.cref[c].dep # 0 THEN triggerEffects(h, h.cref[c].dep, dirtyLevel) ELSE h

\* effect.trigger() of a computed that does not notify its subscribers
effectTrigger_NoPropagate(h, e) == h

\* effect.trigger(): NOOP for an effect made by effect(), the second
\* constructor argument for the effect of a computed
effectTrigger(h, e) ==
    IF e \in Computeds
    THEN triggerRefValue(h, e,
             IF h.eff[e].dirtyLevel = MaybeDirty_ComputedSideEffect
             THEN MaybeDirty_ComputedSideEffect ELSE MaybeDirty)
    ELSE h

pushScheduler(h, e) ==
    IF hasScheduler(e)
    THEN [h EXCEPT !.queueEffectSchedulers = Append(@, e),
                   !.eff[e].pushes = IF @ < 2 THEN @ + 1 ELSE @,
                   !.eff[e].twice = @ \/ h.eff[e].pushes >= 1,
                   !.pushed = @ \cup {[e |-> e, runnings |-> h.eff[e].runnings,
                                        paused |-> h.pauseScheduleStack]}]
    ELSE h

\* the body of the loop of triggerEffects without dep.get(effect) === _trackId
notifyEffect_NoTracking(h, d, dirtyLevel, i) ==
    LET e == h.dep[d].m[i].e
        schedule(h3) ==
            IF /\ h3.eff[e].runnings = 0 \/ allowRecurse(e)
               /\ h3.eff[e].dirtyLevel # MaybeDirty_ComputedSideEffect
            THEN pushScheduler([h3 EXCEPT !.eff[e].shouldSchedule = FALSE], e)
            ELSE h3
        notify(h1) ==
            IF h1.eff[e].shouldSchedule
            THEN schedule(effectTrigger(h1, e))
            ELSE h1
    IN  notify(IF h.eff[e].dirtyLevel < dirtyLevel
               THEN [NoteNotified(h, e) EXCEPT
                        !.eff[e].shouldSchedule = @ \/ h.eff[e].dirtyLevel = NotDirty,
                        !.eff[e].dirtyLevel = dirtyLevel]
               ELSE NoteNotified(h, e))

\* the body of the loop of triggerEffects without _shouldSchedule = false for
\* an effect that has a scheduler
notifyEffect_NoClear(h, d, dirtyLevel, i) ==
    LET e == h.dep[d].m[i].e
        tracking == h.dep[d].m[i].id = h.eff[e].trackId
        schedule(h3) ==
            IF /\ h3.eff[e].runnings = 0 \/ allowRecurse(e)
               /\ h3.eff[e].dirtyLevel # MaybeDirty_ComputedSideEffect
            THEN pushScheduler([h3 EXCEPT !.eff[e].shouldSchedule = hasScheduler(e)], e)
            ELSE h3
        notify(h1) ==
            IF h1.eff[e].shouldSchedule /\ tracking
            THEN schedule(effectTrigger(h1, e))
            ELSE h1
    IN  notify(IF h.eff[e].dirtyLevel < dirtyLevel /\ tracking
               THEN [NoteNotified(h, e) EXCEPT
                        !.eff[e].shouldSchedule = @ \/ h.eff[e].dirtyLevel = NotDirty,
                        !.eff[e].dirtyLevel = dirtyLevel]
               ELSE IF tracking THEN NoteNotified(h, e) ELSE h)

\* the body of the loop of triggerEffects, for the i-th effect of the Dep
notifyEffect(h, d, dirtyLevel, i) ==
    LET e == h.dep[d].m[i].e
        tracking == h.dep[d].m[i].id = h.eff[e].trackId
        schedule(h3) ==
            IF /\ h3.eff[e].runnings = 0 \/ allowRecurse(e)
               /\ h3.eff[e].dirtyLevel # MaybeDirty_ComputedSideEffect
            THEN pushScheduler([h3 EXCEPT !.eff[e].shouldSchedule = FALSE], e)
            ELSE h3
        notify(h1) ==
            IF h1.eff[e].shouldSchedule /\ tracking
            THEN schedule(effectTrigger(h1, e))
            ELSE h1
    IN  notify(IF h.eff[e].dirtyLevel < dirtyLevel /\ tracking
               THEN [NoteNotified(h, e) EXCEPT
                        !.eff[e].shouldSchedule = @ \/ h.eff[e].dirtyLevel = NotDirty,
                        !.eff[e].dirtyLevel = dirtyLevel]
               ELSE IF tracking THEN NoteNotified(h, e) ELSE h)

RECURSIVE triggerEffectsLoop(_, _, _, _)
triggerEffectsLoop(h, d, dirtyLevel, i) ==
    IF i > Len(h.dep[d].m) THEN h
    ELSE triggerEffectsLoop(notifyEffect(h, d, dirtyLevel, i), d, dirtyLevel, i + 1)

triggerEffectsImpl(h, d, dirtyLevel) ==
    resetScheduling(triggerEffectsLoop(pauseScheduling(h), d, dirtyLevel, 1))

\* trigger that marks the effects of the Dep MaybeDirty
trigger_MaybeDirty(h, key) ==
    IF h.targetMap[key] = 0
    THEN resetScheduling(pauseScheduling(h))
    ELSE resetScheduling(triggerEffects(pauseScheduling(h), h.targetMap[key], MaybeDirty))

\* trigger(target, SET, key) on a plain object: the Dep of key, if any
trigger(h, key) ==
    IF h.targetMap[key] = 0
    THEN resetScheduling(pauseScheduling(h))
    ELSE resetScheduling(triggerEffects(pauseScheduling(h), h.targetMap[key], Dirty))

pauseTracking(h) ==
    [h EXCEPT !.trackStack = Append(@, h.shouldTrack), !.shouldTrack = FALSE]

resetTracking(h) ==
    IF h.trackStack = <<>> THEN [h EXCEPT !.shouldTrack = TRUE]
    ELSE [h EXCEPT !.shouldTrack = h.trackStack[Len(h.trackStack)],
                   !.trackStack = SubSeq(@, 1, Len(@) - 1)]

(***************************************************************************)
(* ReactiveEffect                                                          *)
(***************************************************************************)
\* get value() of ComputedRefImpl: the heap, and the value returned
value(h, c) == call("value", h, c, 0)

\* triggerComputed(computed)
triggerComputed(h, c) == value(h, c).h

\* the for loop of get dirty(), from the i-th entry of deps (i counts from 1)
RECURSIVE dirtyLoop(_, _, _)
dirtyLoop(h, e, i) ==
    IF i > h.eff[e].depsLength THEN h
    ELSE LET d == h.eff[e].deps[i]
         IN  IF h.dep[d].key \in Computeds
             THEN LET next(h1) == IF h1.eff[e].dirtyLevel >= Dirty THEN h1
                                  ELSE dirtyLoop(h1, e, i + 1)
                  IN  next(triggerComputed(h, h.dep[d].key))
             ELSE dirtyLoop(h, e, i + 1)

\* get dirty(): the heap, and the value returned
dirty(h, e) ==
    IF h.eff[e].dirtyLevel \in {MaybeDirty_ComputedSideEffect, MaybeDirty}
    THEN LET result(h4) == [h |-> NoteQuery(h4, e, h), v |-> h4.eff[e].dirtyLevel >= Dirty]
             settle(h2) ==
                 result(resetTracking(IF h2.eff[e].dirtyLevel = QueryingDirty
                                      THEN [NoteReset(h2, e) EXCEPT
                                               !.eff[e].dirtyLevel = NotDirty]
                                      ELSE h2))
         IN  settle(dirtyLoop(pauseTracking([h EXCEPT !.eff[e].dirtyLevel = QueryingDirty]),
                              e, 1))
    ELSE [h |-> h, v |-> h.eff[e].dirtyLevel >= Dirty]

\* run() up to the call of fn: the heap, and the frame of the call
\* (history, in the frame: reads, the properties read in the run, and inner,
\* the effects whose run ended inside this fn)
runEnter(h, e) ==
    IF ~h.eff[e].active
    THEN [h |-> [NoteReset(h, e) EXCEPT !.eff[e].dirtyLevel = NotDirty,
                                        !.ran = Append(@, e)],
          frame |-> [kind |-> "run", e |-> e, tracked |-> FALSE,
                     lastEffect |-> NoEffect, lastShouldTrack |-> FALSE,
                     reads |-> {}, inner |-> {}]]
    ELSE [h |-> preCleanupEffect(
                   [NoteReset(h, e) EXCEPT !.eff[e].dirtyLevel = NotDirty,
                                           !.ran = Append(@, e),
                                           !.shouldTrack = TRUE, !.activeEffect = e,
                                           !.eff[e].runnings = @ + 1], e),
          frame |-> [kind |-> "run", e |-> e, tracked |-> TRUE,
                     lastEffect |-> h.activeEffect,
                     lastShouldTrack |-> h.shouldTrack,
                     reads |-> {}, inner |-> {}]]

\* run() from the return of fn: the finally block
\* the finally block of run() without activeEffect = lastEffect
runExit_NoRestore(h, f) ==
    IF ~f.tracked THEN h
    ELSE [postCleanupEffect(h, f.e) EXCEPT !.eff[f.e].runnings = @ - 1,
                                           !.shouldTrack = f.lastShouldTrack]

runExit(h, f) ==
    IF ~f.tracked THEN h
    ELSE [postCleanupEffect(h, f.e) EXCEPT !.eff[f.e].runnings = @ - 1,
                                           !.activeEffect = f.lastEffect,
                                           !.shouldTrack = f.lastShouldTrack]

stop(h, e) ==
    IF h.eff[e].active
    THEN [postCleanupEffect(preCleanupEffect(h, e), e) EXCEPT !.eff[e].active = FALSE]
    ELSE h

(***************************************************************************)
(* Fixed programs: run() as one operator, the schedulers, computed refs.   *)
(***************************************************************************)
\* trackRefValue(ref)
trackRefValue(h, c) ==
    IF h.shouldTrack /\ h.activeEffect # NoEffect
    THEN LET created(m) == [id |-> m.id, h |-> [m.h EXCEPT !.cref[c].dep = m.id]]
             link(n) == trackEffect(n.h, h.activeEffect, n.id)
         IN  link(IF h.cref[c].dep = 0
                  THEN created(createDep(h, c))
                  ELSE [id |-> h.cref[c].dep, h |-> h])
    ELSE h

\* the value the getter of c gives for the property values vals, evaluated
\* without any cache
RECURSIVE Getter(_, _)
Getter(vals, c) ==
    CASE c = "y" -> vals["a"] % 2
      [] c = "z" -> Getter(vals, "y") + 1
      [] OTHER -> vals["b"]

\* history of the value a read of c.value returns
NoteReturn(h, c) ==
    [h EXCEPT !.hist[c].stale = @ \/ h.cref[c].value # Getter(h.val, c)]

\* history of a read of c.value
NoteRead(h, c) ==
    [h EXCEPT !.hist[c].reads = IF @ < 2 THEN @ + 1 ELSE @]

\* history of a call of the getter of c
NoteGetter(h, c) ==
    [h EXCEPT !.hist[c].getter = IF @ < 2 THEN @ + 1 ELSE @,
              !.hist[c].late = @ \/ h.hist[c].reads >= 2]

\* o.k = v: the proxy layer calls trigger on every observable write
set(h, k, v) == trigger([h EXCEPT !.val[k] = v], k)

\* o.k: the proxy layer calls track on every observable read
get(h, k) == [h |-> track(h, k), v |-> h.val[k]]

\* the fns: the getters of y, z and s, and the fn of the effect e1, which is
\* effect(() => { z.value; o.b }), or effect(() => s.value) in the scene "side"
callFn(h, e) ==
    CASE e = "y" -> LET ret(r) == [h |-> r.h, v |-> r.v % 2]
                    IN  ret(get(NoteGetter(h, "y"), "a"))
      [] e = "z" -> LET ret(r) == [h |-> r.h, v |-> r.v + 1]
                    IN  ret(value(NoteGetter(h, "z"), "y"))
      [] e = "s" -> LET ret(r) == [h |-> set(r.h, "b", (r.v + 1) % (MaxVal + 1)),
                                   v |-> r.v]
                    IN  ret(get(NoteGetter(h, "s"), "b"))
      [] e = "e1" -> IF scene = "side"
                     THEN [h |-> value(h, "s").h, v |-> 0]
                     ELSE [h |-> get(value(h, "z").h, "b").h, v |-> 0]
      [] OTHER -> [h |-> h, v |-> 0]

\* run(), with the fn of e a program: the heap, and the value fn returned
run(h, e) ==
    LET exit(b, frame) == [h |-> runExit(b.h, frame), v |-> b.v]
        enter(r) == exit(callFn(r.h, e), r.frame)
    IN  enter(runEnter(h, e))

\* history of a call of a scheduler: the dirty levels of the computeds whose
\* (transitive) dependency is being written, at the first such call, and
\* the value of pauseScheduleStack
NoteScheduler(h) ==
    [h EXCEPT !.hist = [c \in Computeds |->
                           IF @[c].armed /\ @[c].level = Undefined
                           THEN [@[c] EXCEPT !.level = h.eff[c].dirtyLevel]
                           ELSE @[c]],
              !.drained = @ \cup {h.pauseScheduleStack}]

\* the scheduler effect() gives the effect: if (_effect.dirty) _effect.run()
scheduler(h, e) ==
    LET go(q) == IF q.v THEN run(q.h, e).h ELSE q.h
    IN  go(dirty(NoteScheduler(h), e))

\* the while loop of resetScheduling without the test of pauseScheduleStack
drainLoopImpl_NoPause(h) ==
    IF h.queueEffectSchedulers # <<>>
    THEN drainLoop(scheduler([h EXCEPT !.queueEffectSchedulers = Tail(@)],
                             Head(h.queueEffectSchedulers)))
    ELSE h

drainLoopImpl(h) ==
    IF h.pauseScheduleStack = 0 /\ h.queueEffectSchedulers # <<>>
    THEN drainLoop(scheduler([h EXCEPT !.queueEffectSchedulers = Tail(@)],
                             Head(h.queueEffectSchedulers)))
    ELSE h

\* get value() of ComputedRefImpl with the effect run on every read
value_NoCache(h, c) ==
    LET result(h4) == [h |-> NoteReturn(h4, c), v |-> h4.cref[c].value]
        sideEffect(h3) ==
            result(IF h3.eff[c].dirtyLevel >= MaybeDirty_ComputedSideEffect
                   THEN triggerRefValue(h3, c, MaybeDirty_ComputedSideEffect)
                   ELSE h3)
        assign(r, old) ==
            IF old # r.v THEN triggerRefValue([r.h EXCEPT !.cref[c].value = r.v], c, Dirty)
            ELSE [r.h EXCEPT !.cref[c].value = r.v]
        read(h0) == sideEffect(trackRefValue(assign(run(h0, c), h0.cref[c].value), c))
    IN  read(NoteRead(h, c))

\* history of a call of the getter of c in a read of c.value that began in
\* the heap h0: whether the read was recorded before
NoteOrder(h, c, h0) ==
    IF /\ h0.shouldTrack
       /\ h0.activeEffect # NoEffect
       /\ \/ h0.cref[c].dep = 0
          \/ MapGet(h0.dep[h0.cref[c].dep].m, h0.activeEffect)
                 # h0.eff[h0.activeEffect].trackId
    THEN [h EXCEPT !.hist[c].unrecorded = TRUE]
    ELSE h

valueImpl(h, c) ==
    LET result(h4) == [h |-> NoteReturn(h4, c), v |-> h4.cref[c].value]
        sideEffect(h3) ==
            result(IF h3.eff[c].dirtyLevel >= MaybeDirty_ComputedSideEffect
                   THEN triggerRefValue(h3, c, MaybeDirty_ComputedSideEffect)
                   ELSE h3)
        assign(r, old) ==
            IF old # r.v THEN triggerRefValue([r.h EXCEPT !.cref[c].value = r.v], c, Dirty)
            ELSE [r.h EXCEPT !.cref[c].value = r.v]
        query(q) ==
            sideEffect(trackRefValue(IF q.v THEN assign(run(NoteOrder(q.h, c, h), c),
                                                        q.h.cref[c].value)
                                     ELSE q.h, c))
        read(h0) == query(IF ~h0.cref[c].cacheable THEN [h |-> h0, v |-> TRUE]
                          ELSE dirty(h0, c))
    IN  read(NoteRead(h, c))

call(f, h, x, y) ==
    CASE f = "drainLoop" -> drainLoopImpl(h)
      [] f = "triggerEffects" -> triggerEffectsImpl(h, x, y)
      [] f = "value" -> valueImpl(h, x)

(***************************************************************************)
(* The control stack.                                                      *)
(***************************************************************************)
DrainFrame == [kind |-> "drain"]
Top == stack[Len(stack)]
Pop == SubSeq(stack, 1, Len(stack) - 1)
InFn == stack # <<>> /\ Top.kind = "run"
UserCode == stack = <<>> \/ InFn
OnStack(e) == \E i \in 1..Len(stack) : stack[i].kind = "run" /\ stack[i].e = e

\* the while loop of the outermost resetScheduling starts when schedulers pend
WithDrain(st, h) ==
    IF h.pauseScheduleStack = 0 /\ h.queueEffectSchedulers # <<>>
    THEN Append(st, DrainFrame) ELSE st

\* the effects the program creates, and the operations it may issue
SceneEffects == IF scene = "self" THEN {"e1"} ELSE PlainEffects
OpsBound == IF scene = "self" THEN MaxOpsSelf ELSE MaxOps

Commit(h0) ==
    \E h \in {Collect(h0)} :
        /\ targetMap' = h.targetMap
        /\ dep' = h.dep
        /\ eff' = h.eff
        /\ activeEffect' = h.activeEffect
        /\ shouldTrack' = h.shouldTrack
        /\ pauseScheduleStack' = h.pauseScheduleStack
        /\ queueEffectSchedulers' = h.queueEffectSchedulers
        /\ cleaned' = h.cleaned
        /\ pushed' = h.pushed
        /\ drained' = h.drained
        /\ ran' = h.ran
        /\ val' = h.val
        /\ cref' = h.cref
        /\ trackStack' = h.trackStack
        /\ hist' = h.hist
        /\ UNCHANGED svars

(***************************************************************************)
(* History.  runs[e]: done, whether a run of e that collects dependencies  *)
(* (a run of e while active) completed; last, the keys the most recent     *)
(* such run to complete read; ever, the keys the completed ones read.      *)
(* ext: key, the key of the top level write being (or last) processed;     *)
(* subs, the effects that held a current edge to it; ran, how often each   *)
(* effect's fn was called since (capped at 2); writers, the writes issued  *)
(* by an fn since; other, whether user code called a runner or stop since. *)
(***************************************************************************)
NoRuns == [done |-> FALSE, last |-> {}, ever |-> {}]

\* hist[c]: reads, the reads of c.value since the task last changed a
\* property c depends on (capped at 2); getter, the calls of its getter since
\* (capped at 2); late, whether the getter was called in a read after the
\* first of them; first, whether no such change has happened yet;
\* unrecorded, whether the getter was called in a read by an active effect
\* that had no current entry in the Dep of c yet.
NoHist ==
    [reads |-> 0, getter |-> 0, late |-> FALSE, first |-> TRUE,
     stale |-> FALSE, moved |-> FALSE, armed |-> FALSE, level |-> Undefined,
     unrecorded |-> FALSE]
NoExt == [key |-> NoKey, subs |-> {}, ran |-> [e \in Effects |-> 0],
          writers |-> {}, other |-> FALSE]

Subscribers(k) ==
    IF targetMap[k] = 0 THEN {}
    ELSE {e \in Effects : MapGet(dep[targetMap[k]].m, e) = eff[e].trackId}

\* ext is kept in the scene "self" only
ExtWrite(k) ==
    IF scene # "self" THEN ext
    ELSE IF stack = <<>> THEN [NoExt EXCEPT !.key = k, !.subs = Subscribers(k)]
    ELSE [ext EXCEPT !.writers = @ \cup {[e |-> Top.e, k |-> k]}]

ExtOther ==
    IF scene # "self" THEN ext
    ELSE IF stack = <<>> THEN NoExt ELSE [ext EXCEPT !.other = TRUE]

ExtRan(e) ==
    IF scene # "self" THEN ext ELSE [ext EXCEPT !.ran[e] = IF @ < 2 THEN @ + 1 ELSE @]

(***************************************************************************)
(* Steps of user code: the top level task, or the fn of a running effect.  *)
(***************************************************************************)
\* The fn of a stopped effect is called without a tracking context of its
\* own: what it reads is read in the run that called it.  Reader is the
\* frame of that run (or the outermost frame).
Reader ==
    LET tracked == {i \in 1..Len(stack) : stack[i].kind = "run" /\ stack[i].tracked}
    IN  IF tracked = {} THEN 1 ELSE CHOOSE i \in tracked : \A j \in tracked : j <= i

\* a reactive property is read inside fn: the proxy calls track
Read(k) ==
    /\ InFn
    /\ HasFreeDep(Heap)
    /\ Commit(track(Heap, k))
    /\ stack' = [i \in 1..Len(stack) |->
                     IF i < Reader THEN stack[i]
                     ELSE [stack[i] EXCEPT !.reads = @ \cup {k}]]
    /\ UNCHANGED <<scene, ops, runs, ext>>

\* a reactive property is written: the proxy calls trigger
Write(k) ==
    /\ UserCode
    /\ ops < OpsBound
    /\ Len(stack) < MaxDepth
    /\ LET h == trigger(Heap, k)
       IN  /\ Commit(h)
           /\ stack' = WithDrain(stack, h)
    /\ ops' = ops + 1
    /\ ext' = ExtWrite(k)
    /\ UNCHANGED <<scene, runs>>

\* effect(fn) runs the effect once; later its runner is called: effect.run()
Runner(e) ==
    /\ UserCode
    /\ eff[e].trackId = 0 \/ ops < OpsBound
    /\ Len(stack) < MaxDepth
    /\ ~OnStack(e)
    /\ LET r == runEnter(Heap, e)
       IN  /\ Commit(r.h)
           /\ stack' = Append(stack, r.frame)
    /\ ops' = IF eff[e].trackId = 0 THEN ops ELSE ops + 1
    /\ ext' = ExtOther
    /\ UNCHANGED <<scene, runs>>

\* stop(runner)
Stop(e) ==
    /\ UserCode
    /\ ops < OpsBound
    /\ eff[e].active
    /\ Commit(stop(Heap, e))
    /\ ops' = ops + 1
    /\ ext' = ExtOther
    /\ UNCHANGED <<scene, stack, runs>>

\* fn returns: the finally block of run()
Return ==
    /\ InFn
    /\ Commit(runExit(Heap, Top))
    /\ stack' = IF Pop # <<>> /\ Pop[Len(Pop)].kind = "run"
                 THEN [Pop EXCEPT ![Len(Pop)].inner = @ \cup {Top.e}]
                 ELSE Pop
    /\ runs' = IF Top.tracked
                THEN [runs EXCEPT ![Top.e] =
                         [done |-> TRUE, last |-> Top.reads,
                          ever |-> runs[Top.e].ever \cup Top.reads]]
                ELSE runs
    /\ UNCHANGED <<scene, ops, ext>>

\* one turn of the while loop of resetScheduling: the default scheduler of
\* effect(), () => { if (_effect.dirty) _effect.run() }
Drain ==
    /\ stack # <<>>
    /\ Top.kind = "drain"
    /\ IF pauseScheduleStack # 0 \/ queueEffectSchedulers = <<>>
       THEN /\ Commit(Heap)
            /\ stack' = Pop
            /\ ext' = ext
       ELSE LET e == Head(queueEffectSchedulers)
                h1 == [Heap EXCEPT !.queueEffectSchedulers = Tail(@),
                                   !.drained = {pauseScheduleStack}]
                q == dirty(h1, e)
            IN  IF q.v
                THEN LET r == runEnter(q.h, e)
                     IN  /\ Commit(r.h)
                         /\ stack' = Append(stack, r.frame)
                         /\ ext' = ExtRan(e)
                ELSE /\ Commit(q.h)
                     /\ stack' = stack
                     /\ ext' = ext
    /\ UNCHANGED <<scene, ops, runs>>

(***************************************************************************)
(* The tick scheduler.  Jobs are named; their id, pre and allowRecurse     *)
(* never change, their active flag does.                                   *)
(*   r1  the render job of component 1 (the parent)                        *)
(*   w2  a flush:'pre' watcher with a callback, of component 2             *)
(*   r2  the render job of component 2 (the child)                         *)
(*   n   a job without id                                                  *)
(*   p1  a post-flush callback                                             *)
(*   w0  a flush:'pre' watcher created outside a component: no id          *)
(*   wp  the job of a watcher with flush: 'post'                           *)
(*   ws  the job of a watcher with flush: 'sync'                           *)
(***************************************************************************)
Jobs == {"r1", "w2", "r2", "n"}
Cbs == {"p1", "p2", "p3"}    \* post-flush callbacks; p3 has no id
MixCbs == {"p1"}             \* those of the scenes "mix" and "loop"
PostJobs == {"r1"}           \* the jobs of the scene "post"
WatchJobs == {"w2", "wp", "ws"}
PreJobs == Jobs \cup {"w0"}  \* the jobs of the scheduler with flushPreFlushCbs
AllJobs == PreJobs \cup Cbs \cup WatchJobs
LoopJob == "w2"
Infinity == 1000
RECURSION_LIMIT == 100

JobId(j) == CASE j = "r1" -> 1 [] j = "w2" -> 2 [] j = "r2" -> 2 [] j = "p1" -> 1
                 [] j = "p2" -> 2 [] OTHER -> Infinity
hasId(j) == j \notin {"n", "p3", "w0", "wp", "ws"}

\* job.i, the component instance the renderer attaches to a render job
hasInstance(j) == j \in {"r1", "r2"}
pre(j) == j \in {"w2", "w0"}
jobAllowRecurse(j) == j \in WatchJobs \cup {"w0"}

getId(j) == IF hasId(j) THEN JobId(j) ELSE Infinity

\* INITIAL_WATCHER_VALUE, an object that equals no value
INITIAL_WATCHER_VALUE == 0 - 2

\* before watch() is called.  flush, immediate, once: the options; active,
\* dirtyLevel, shouldSchedule: the fields of the ReactiveEffect; tracked:
\* the effect is in the Dep of the source with its current _trackId; source:
\* the value of the watched ref; oldValue: the variable of doWatch.
\* History: seed, the value effect.run() returned at creation; stopped,
\* unwatch was called; getterRuns, the calls of the getter; ranStopped, one
\* of them was made after unwatch; log, the invocations of the user
\* callback; returned, the number of those that have returned.
NoWatcher ==
    [created |-> FALSE, flush |-> "pre", immediate |-> FALSE, once |-> FALSE,
     active |-> TRUE, dirtyLevel |-> Dirty, shouldSchedule |-> FALSE, tracked |-> FALSE,
     source |-> 0, oldValue |-> INITIAL_WATCHER_VALUE,
     seed |-> INITIAL_WATCHER_VALUE, stopped |-> FALSE, getterRuns |-> 0,
     ranStopped |-> FALSE, log |-> <<>>, returned |-> 0]

\* no invalidateJob call
NoCall == [j |-> "none", waited |-> FALSE]

\* the scheduler's state as one record
Sched ==
    [isFlushing |-> isFlushing, isFlushPending |-> isFlushPending, queue |-> queue,
     flushIndex |-> flushIndex, pendingPostFlushCbs |-> pendingPostFlushCbs,
     activePostFlushCbs |-> activePostFlushCbs, postFlushIndex |-> postFlushIndex,
     microtasks |-> microtasks, currentFlushPromise |-> currentFlushPromise,
     ticks |-> ticks, postRan |-> postRan, postBounds |-> postBounds, errors |-> errors,
     invalidated |-> NoCall, watcher |-> watcher,
     seen |-> seen, reported |-> reported]

\* Array.prototype.includes(x, fromIndex), indices from 0
includes(q, x, from) == \E i \in (from + 1)..Len(q) : q[i] = x

\* Array.prototype.indexOf(x), from 0; -1 when absent
indexOf(q, x) ==
    IF \E i \in 1..Len(q) : q[i] = x
    THEN (CHOOSE i \in 1..Len(q) : q[i] = x /\ \A k \in 1..(i - 1) : q[k] # x) - 1
    ELSE 0 - 1

\* Array.prototype.splice(at, 0, x): at is clamped to the length
spliceIn(q, at, x) ==
    LET a == IF at > Len(q) THEN Len(q) ELSE at
    IN  SubSeq(q, 1, a) \o <<x>> \o SubSeq(q, a + 1, Len(q))

\* Array.prototype.splice(at, 1)
spliceOut(q, at) == SubSeq(q, 1, at) \o SubSeq(q, at + 2, Len(q))

RECURSIVE search(_, _, _, _)
search(q, start, end, id) ==
    IF start < end
    THEN LET middle == (start + end) \div 2
             middleJob == q[middle + 1]
             middleJobId == getId(middleJob)
         IN  IF middleJobId < id \/ (middleJobId = id /\ pre(middleJob))
             THEN search(q, middle + 1, end, id)
             ELSE search(q, start, middle, id)
    ELSE start

findInsertionIndex(s, id) == search(s.queue, s.flushIndex + 1, Len(s.queue), id)

queueFlush(s) ==
    IF ~s.isFlushing /\ ~s.isFlushPending
    THEN [s EXCEPT !.isFlushPending = TRUE, !.microtasks = @ + 1,
                   !.currentFlushPromise = TRUE]
    ELSE s

\* nextTick(fn) with p = resolvedPromise whatever currentFlushPromise is
nextTick_Resolved(s) ==
    [s EXCEPT !.ticks = Append(@, [ready |-> TRUE, ran |-> FALSE, drained |-> FALSE,
                                   pending |-> s.isFlushPending \/ s.isFlushing])]

\* nextTick(fn): p.then(fn) for p = currentFlushPromise || resolvedPromise.
\* fn is a microtask at once (ready) when p is resolvedPromise, and when the
\* flushJobs microtask that p stands for has returned otherwise.  History:
\* pending, a flush was pending or running at the call; drained, a
\* flushJobs microtask has returned since; ran, fn has run.
nextTick(s) ==
    [s EXCEPT !.ticks = Append(@, [ready |-> ~s.currentFlushPromise, ran |-> FALSE,
                                   drained |-> FALSE,
                                   pending |-> s.isFlushPending \/ s.isFlushing])]

\* the flushJobs microtask has returned: its promise is resolved, and the
\* callbacks waiting for it are microtasks behind those that are already
resolve(t) ==
    SelectSeq(t, LAMBDA x : x.ran) \o
    [i \in 1..Len(SelectSeq(t, LAMBDA x : ~x.ran /\ x.ready)) |->
        [SelectSeq(t, LAMBDA x : ~x.ran /\ x.ready)[i] EXCEPT !.drained = TRUE]] \o
    [i \in 1..Len(SelectSeq(t, LAMBDA x : ~x.ran /\ ~x.ready)) |->
        [SelectSeq(t, LAMBDA x : ~x.ran /\ ~x.ready)[i] EXCEPT !.drained = TRUE,
                                                              !.ready = TRUE]]

\* a callback of nextTick is a microtask that has not run
TickReady(t) == \E i \in 1..Len(t) : t[i].ready /\ ~t[i].ran

\* queueJob with the dedup window of an allowRecurse job for every job
queueJob_AlwaysRecurse(s, job) ==
    IF \/ Len(s.queue) = 0
       \/ ~includes(s.queue, job, IF s.isFlushing THEN s.flushIndex + 1 ELSE s.flushIndex)
    THEN queueFlush([s EXCEPT !.queue =
                        IF ~hasId(job) THEN Append(@, job)
                        ELSE spliceIn(@, findInsertionIndex(s, JobId(job)), job)])
    ELSE s

queueJob(s, job) ==
    IF \/ Len(s.queue) = 0
       \/ ~includes(s.queue, job,
                    IF s.isFlushing /\ jobAllowRecurse(job)
                    THEN s.flushIndex + 1 ELSE s.flushIndex)
    THEN queueFlush([s EXCEPT !.queue =
                        IF ~hasId(job) THEN Append(@, job)
                        ELSE spliceIn(@, findInsertionIndex(s, JobId(job)), job)])
    ELSE s

\* invalidateJob with i >= flushIndex
invalidateJob_Geq(s, job) ==
    LET i == indexOf(s.queue, job)
    IN  IF i >= s.flushIndex THEN [s EXCEPT !.queue = spliceOut(@, i)] ELSE s

invalidateJob(s, job) ==
    LET i == indexOf(s.queue, job)
    IN  IF i > s.flushIndex THEN [s EXCEPT !.queue = spliceOut(@, i)] ELSE s

queuePostFlushCb(s, cb) ==
    queueFlush(
        IF \/ s.activePostFlushCbs = <<>>
           \/ ~includes(s.activePostFlushCbs, cb,
                        IF jobAllowRecurse(cb) THEN s.postFlushIndex + 1
                        ELSE s.postFlushIndex)
        THEN [s EXCEPT !.pendingPostFlushCbs = Append(@, cb)]
        ELSE s)

\* comparator without the pre flag
comparator_NoPre(a, b) ==
    LET ia == getId(a)
        ib == getId(b)
    IN  IF ia = ib THEN 0 ELSE IF ia < ib THEN 0 - 1 ELSE 1

\* the sign of comparator(a, b); Infinity - Infinity is NaN, which sort takes as 0
comparator(a, b) ==
    LET ia == getId(a)
        ib == getId(b)
    IN  IF ia = Infinity /\ ib = Infinity THEN 0
        ELSE IF ia = ib
             THEN IF pre(a) /\ ~pre(b) THEN 0 - 1
                  ELSE IF pre(b) /\ ~pre(a) THEN 1 ELSE 0
             ELSE IF ia < ib THEN 0 - 1 ELSE 1

\* the sign of getId(a) - getId(b), the order of flushPostFlushCbs
byId(a, b) ==
    LET ia == getId(a)
        ib == getId(b)
    IN  IF ia = ib THEN 0 ELSE IF ia < ib THEN 0 - 1 ELSE 1

\* the comparison function of a sort: comparator in flushJobs, the id
\* difference in flushPostFlushCbs
compare(a, b, byPre) == IF byPre THEN comparator(a, b) ELSE byId(a, b)

\* Array.prototype.sort(cmp), a stable sort: the element at i moves behind
\* the elements that precede it in the order, and behind its equals before i
sort(q, byPre) ==
    LET rank(i) == Cardinality({k \in 1..Len(q) :
                       \/ compare(q[k], q[i], byPre) < 0
                       \/ compare(q[k], q[i], byPre) = 0 /\ k < i}) + 1
    IN  [r \in 1..Len(q) |-> q[CHOOSE i \in 1..Len(q) : rank(i) = r]]

\* [...new Set(q)]: the first occurrence of each element
dedupe(q) == SelectSeq([i \in 1..Len(q) |-> IF \E k \in 1..(i - 1) : q[k] = q[i]
                                             THEN "" ELSE q[i]], LAMBDA x : x # "")

\* handleError(message, null, APP_ERROR_HANDLER): the error is reported
handleError(s, fn) == [s EXCEPT !.reported[fn] = @ + 1]

\* checkRecursiveUpdates without the return true behind handleError
checkRecursiveUpdates_NoReturn(s, fn) ==
    IF s.seen[fn] = 0
    THEN [s |-> [s EXCEPT !.seen[fn] = 1], skip |-> FALSE]
    ELSE LET count == s.seen[fn]
         IN  IF count > RECURSION_LIMIT
             THEN [s |-> handleError(s, fn), skip |-> FALSE]
             ELSE [s |-> [s EXCEPT !.seen[fn] = count + 1], skip |-> FALSE]

\* checkRecursiveUpdates with count >= RECURSION_LIMIT
checkRecursiveUpdates_Geq(s, fn) ==
    IF s.seen[fn] = 0
    THEN [s |-> [s EXCEPT !.seen[fn] = 1], skip |-> FALSE]
    ELSE LET count == s.seen[fn]
         IN  IF count >= RECURSION_LIMIT
             THEN [s |-> handleError(s, fn), skip |-> TRUE]
             ELSE [s |-> [s EXCEPT !.seen[fn] = count + 1], skip |-> FALSE]

\* checkRecursiveUpdates: the state, and whether the job is to be skipped
checkRecursiveUpdates(s, fn) ==
    IF s.seen[fn] = 0
    THEN [s |-> [s EXCEPT !.seen[fn] = 1], skip |-> FALSE]
    ELSE LET count == s.seen[fn]
         IN  IF count > RECURSION_LIMIT
             THEN [s |-> handleError(s, fn), skip |-> TRUE]
             ELSE [s |-> [s EXCEPT !.seen[fn] = count + 1], skip |-> FALSE]

\* flushJobs without queue.sort(comparator)
flushJobsEnter_NoSort(s) ==
    [s EXCEPT !.isFlushPending = FALSE, !.isFlushing = TRUE, !.flushIndex = 0]

\* flushJobs up to the for loop
flushJobsEnter(s) ==
    [s EXCEPT !.isFlushPending = FALSE, !.isFlushing = TRUE,
              !.queue = sort(@, TRUE), !.flushIndex = 0]

\* flushPostFlushCbs without the Set and the sort
flushPostFlushCbsEnter_Raw(s) ==
    IF s.pendingPostFlushCbs = <<>> THEN s
    ELSE LET s1 == [s EXCEPT !.pendingPostFlushCbs = <<>>]
         IN  IF s1.activePostFlushCbs # <<>>
             THEN [s1 EXCEPT !.activePostFlushCbs = @ \o s.pendingPostFlushCbs,
                             !.postBounds = Append(@, Len(s.activePostFlushCbs))]
             ELSE [s1 EXCEPT !.activePostFlushCbs = s.pendingPostFlushCbs,
                             !.postFlushIndex = 0, !.postRan = <<>>, !.postBounds = <<>>]

\* flushPostFlushCbs up to its for loop
flushPostFlushCbsEnter(s) ==
    IF s.pendingPostFlushCbs = <<>> THEN s
    ELSE LET deduped == sort(dedupe(s.pendingPostFlushCbs), FALSE)
             s1 == [s EXCEPT !.pendingPostFlushCbs = <<>>]
         IN  IF s1.activePostFlushCbs # <<>>
             THEN [s1 EXCEPT !.activePostFlushCbs = @ \o deduped,
                             !.postBounds = Append(@, Len(s.activePostFlushCbs))]
             ELSE [s1 EXCEPT !.activePostFlushCbs = deduped, !.postFlushIndex = 0,
                             !.postRan = <<>>, !.postBounds = <<>>]

NoSeen == [j \in AllJobs |-> 0]

\* the scheduler before any call
SZero ==
    /\ dev = TRUE
    /\ isFlushing = FALSE
    /\ isFlushPending = FALSE
    /\ queue = <<>>
    /\ flushIndex = 0
    /\ pendingPostFlushCbs = <<>>
    /\ activePostFlushCbs = <<>>
    /\ postFlushIndex = 0
    /\ microtasks = 0
    /\ currentFlushPromise = FALSE
    /\ ticks = <<>>
    /\ postRan = <<>>
    /\ postBounds = <<>>
    /\ errors = <<>>
    /\ invalidated = NoCall
    /\ watcher = NoWatcher
    /\ seen = NoSeen
    /\ jobActive = [j \in AllJobs |-> TRUE]
    /\ calls = <<>>
    /\ sops = 0
    /\ invoked = NoSeen
    /\ reported = NoSeen
    /\ requeued = {}
    /\ selfCalled = {}
    /\ maxId = 0
    /\ owed = {}

RInit ==
    /\ scene \in {"track", "self"}
    /\ targetMap = [k \in Keys |-> 0]
    /\ dep = [d \in DepIds |-> FreeDep]
    /\ eff = [e \in Effects |-> NewEffect]
    /\ activeEffect = NoEffect
    /\ shouldTrack = TRUE
    /\ pauseScheduleStack = 0
    /\ queueEffectSchedulers = <<>>
    /\ stack = <<>>
    /\ ops = 0
    /\ cleaned = <<>>
    /\ pushed = {}
    /\ drained = {}
    /\ ran = <<>>
    /\ runs = [e \in Effects |-> NoRuns]
    /\ ext = NoExt

\* the computed refs while none is used
CZero ==
    /\ val = [k \in Keys |-> 0]
    /\ cref = [c \in Computeds |-> NewComputed(FALSE)]
    /\ trackStack = <<>>
    /\ hist = [c \in Computeds |-> NoHist]

Init == RInit /\ CZero /\ SZero

Next ==
    \/ \E k \in Keys : Read(k)
    \/ \E k \in Keys : Write(k)
    \/ \E e \in SceneEffects : Runner(e)
    \/ \E e \in SceneEffects : Stop(e)
    \/ Return
    \/ Drain

Spec == Init /\ [][Next]_vars

(***************************************************************************)
(* The computed refs.  The task reads them, writes the properties, and     *)
(* makes, calls and stops the effect e1; each such step runs to its end.   *)
(***************************************************************************)
SceneComputeds == IF scene = "side" THEN {"s"} ELSE {"y", "z"}

\* the properties a computed depends on, directly or through a computed
TransDeps(c) == IF c = "s" THEN {"b"} ELSE {"a"}

\* the getter of c writes a reactive property
WritesInGetter(c) == c = "s"

\* history: a write to k by the task ends the reads without a change
\* (stale stays; moved: c was read since the change before, and this write
\* changes what its getter gives; armed: the write is to a dependency of c)
NoteChange(h, k, v) ==
    [h EXCEPT !.hist = [c \in Computeds |->
                           IF k \in TransDeps(c)
                           THEN [NoHist EXCEPT
                                    !.first = FALSE,
                                    !.stale = h.hist[c].stale,
                                    !.armed = TRUE,
                                    !.moved = /\ h.hist[c].reads >= 1
                                              /\ Getter([h.val EXCEPT ![k] = v], c)
                                                     # Getter(h.val, c)]
                           ELSE [@[c] EXCEPT !.armed = FALSE]]]

\* the task reads c.value
ReadValue(c) ==
    /\ ops < MaxCompOps
    /\ Commit(value(Heap, c).h)
    /\ ops' = ops + 1
    /\ UNCHANGED <<scene, stack, runs, ext>>

\* the task writes o.k = v, a value other than the current one
WriteKey(k, v) ==
    /\ ops < MaxCompOps
    /\ v # val[k]
    /\ Commit(set(NoteChange(Heap, k, v), k, v))
    /\ ops' = ops + 1
    /\ UNCHANGED <<scene, stack, runs, ext>>

\* effect(fn) runs e1 once; later the task calls its runner
RunEffect(e) ==
    /\ ops < MaxCompOps
    /\ Commit(run(Heap, e).h)
    /\ ops' = ops + 1
    /\ UNCHANGED <<scene, stack, runs, ext>>

\* stop(runner)
StopEffect(e) ==
    /\ ops < MaxCompOps
    /\ eff[e].active
    /\ eff[e].trackId > 0
    /\ Commit(stop(Heap, e))
    /\ ops' = ops + 1
    /\ UNCHANGED <<scene, stack, runs, ext>>

CompInit ==
    /\ scene \in CompScenes
    /\ targetMap = [k \in Keys |-> 0]
    /\ dep = [d \in DepIds |-> FreeDep]
    /\ eff = [e \in Effects |->
                 IF e \in Computeds THEN [NewEffect EXCEPT !.active = scene # "ssr"]
                 ELSE NewEffect]
    /\ activeEffect = NoEffect
    /\ shouldTrack = TRUE
    /\ pauseScheduleStack = 0
    /\ queueEffectSchedulers = <<>>
    /\ stack = <<>>
    /\ ops = 0
    /\ cleaned = <<>>
    /\ pushed = {}
    /\ drained = {}
    /\ ran = <<>>
    /\ runs = [e \in Effects |-> NoRuns]
    /\ ext = NoExt
    /\ val = [k \in Keys |-> 0]
    /\ cref = [c \in Computeds |-> NewComputed(scene = "ssr")]
    /\ trackStack = <<>>
    /\ hist = [c \in Computeds |-> NoHist]
    /\ SZero

CompNext ==
    \/ \E c \in SceneComputeds : ReadValue(c)
    \/ \E k \in Keys : \E v \in 0..MaxVal : WriteKey(k, v)
    \/ RunEffect("e1")
    \/ StopEffect("e1")

CompSpec == CompInit /\ [][CompNext]_vars

\* the computed refs y and z and the effect that reads z, alone
ChainInit == CompInit /\ scene = "chain"

ChainSpec == ChainInit /\ [][CompNext]_vars

\* C10 as stated: the reads of a cacheable computed with no change to its
\* dependencies between them call the getter exactly once in all, in the
\* first of them
C10_Original ==
    \A c \in Computeds : cref[c].cacheable =>
        /\ ~hist[c].late
        /\ hist[c].reads >= 1 => hist[c].getter = 1

\* C10: for a cacheable computed whose getter writes no reactive property,
\* the reads of .value with no change to its (transitive) dependencies
\* between them call the getter at most once, in the first of them, and
\* exactly once when they begin with the first read of the computed.
C10_ComputedCaching ==
    \A c \in Computeds : (cref[c].cacheable /\ ~WritesInGetter(c)) =>
        /\ hist[c].getter <= 1
        /\ ~hist[c].late
        /\ (hist[c].first /\ hist[c].reads >= 1) => hist[c].getter = 1

\* z was read twice and more since the last change of a, after one before it
C10_Witness ==
    /\ cref["z"].cacheable
    /\ ~hist["z"].first
    /\ hist["z"].reads = 2
    /\ hist["z"].getter = 1
    /\ hist["y"].getter = 1
    /\ cref["z"].value = (val["a"] % 2) + 1

\* C11: in the chain a -> y -> z of cacheable computeds whose getters write
\* nothing, every read of y.value or z.value, by the task or by an effect,
\* after any writes and reads, returns what the getters give for the
\* current value of a; and after one write that changes y, made when z had
\* been read, the next read of z calls the getter of y and the getter of z
\* exactly once each.
C11_ComputedFreshness ==
    /\ \A c \in Computeds :
          (cref[c].cacheable /\ ~WritesInGetter(c)) =>
              /\ ~hist[c].stale
              /\ hist[c].reads >= 1 => cref[c].value = Getter(val, c)
    /\ (cref["z"].cacheable /\ hist["z"].moved /\ hist["z"].reads >= 1) =>
          hist["z"].getter = 1 /\ hist["y"].getter = 1

\* z was read, a written so that y changed, and z read again
C11_Witness ==
    /\ cref["z"].cacheable
    /\ hist["z"].moved
    /\ hist["z"].reads >= 1
    /\ val["a"] = 1
    /\ cref["z"].value = 2
    /\ hist["y"].getter = 1

\* the levels of y and z when the scheduler of e1 was called for a write to a
C12_Levels ==
    \A c \in {"y", "z"} :
        (cref[c].cacheable /\ hist[c].armed /\ hist[c].level # Undefined) =>
            /\ hist["y"].level = Dirty
            /\ hist["z"].level >= MaybeDirty

\* a write to a in which the fn of e1 ran
C12_Observes ==
    (val'["a"] # val["a"] /\ eff'["e1"].trackId > eff["e1"].trackId) =>
        /\ hist'["z"].reads >= 1
        /\ ~hist'["z"].stale
        /\ cref'["z"].value = Getter(val', "z")

\* C12: in the chain a -> y -> z -> e1, when a is written the effect of y is
\* Dirty and the effect of z at least MaybeDirty when the scheduler of e1 is
\* called (which is before its fn is), and the fn of e1, when the write
\* makes it run, reads the value of z computed from the new a.
C12_DirtyPropagation == []C12_Levels /\ [][C12_Observes]_vars

\* a write to a called the scheduler of e1, which ran its fn
C12_Witness ==
    /\ hist["y"].armed
    /\ hist["y"].level = Dirty
    /\ hist["z"].level = MaybeDirty
    /\ eff["e1"].trackId = 2
    /\ val["a"] = 1
    /\ cref["z"].value = 2

(***************************************************************************)
(* Properties of the dependency graph.                                     *)
(***************************************************************************)
\* e is a member of the Dep stored for key k
Member(e, k) == targetMap[k] # 0 /\ MapHas(dep[targetMap[k]].m, e)

\* e.deps holds a Dep of key k
InDeps(e, k) == \E i \in 1..Len(eff[e].deps) : dep[eff[e].deps[i]].key = k

Count(s, x) == Cardinality({i \in 1..Len(s) : s[i] = x})

\* the most recent dependency-collecting run of e is complete
Completed(e) == runs[e].done /\ ~OnStack(e)

\* C1: when the most recently completed run of an effect e did not read key
\* k although an earlier run of e did, e is not a member of the Dep of k and
\* e.deps does not hold that Dep (so a trigger on k does not reach e).
C1_NoStaleEdges ==
    \A e \in Effects : \A k \in Keys :
        (Completed(e) /\ k \in runs[e].ever \ runs[e].last)
            => ~Member(e, k) /\ ~InDeps(e, k)

\* C2: after a completed run of a (still active) effect e that read key k,
\* the Dep of k holds e exactly once, with e's current trackId, and
\* e.deps[0..depsLength) holds that Dep exactly once, and no Dep twice.
C2_EdgeDedup ==
    \A e \in Effects :
        (Completed(e) /\ eff[e].active) =>
            /\ \A k \in runs[e].last :
                  /\ targetMap[k] # 0
                  /\ dep[targetMap[k]].key = k
                  /\ Count([i \in 1..Len(dep[targetMap[k]].m) |->
                               dep[targetMap[k]].m[i].e], e) = 1
                  /\ MapGet(dep[targetMap[k]].m, e) = eff[e].trackId
                  /\ Count(SubSeq(eff[e].deps, 1, eff[e].depsLength), targetMap[k]) = 1
            /\ \A d \in DepIds :
                  Count(SubSeq(eff[e].deps, 1, eff[e].depsLength), d) <= 1

\* a Dep is stored in the key-map of its target
InMap(d) == \E k \in Keys : targetMap[k] = d

C3_Stored ==
    /\ \A d \in DepIds : InMap(d) <=> dep[d].m # <<>>
    /\ \A k \in Keys : targetMap[k] # 0 => dep[targetMap[k]].key = k

\* d loses its last effect in this step
Emptied(d) == dep[d].m # <<>> /\ dep'[d].m = <<>>

C3_Cleanup ==
    \A d \in DepIds :
        /\ Emptied(d) => /\ Count(cleaned', d) = 1
                         /\ targetMap[dep[d].key] = d
                         /\ targetMap'[dep[d].key] = 0
        /\ Count(cleaned', d) > 0 => Emptied(d)

\* C3: a Dep is stored in its target's key-map iff it has an effect; the
\* operation that removes the last effect of a Dep calls its cleanup exactly
\* once, and the cleanup removes the key of that very Dep.
C3_EmptyDepCleanup == []C3_Stored /\ [][C3_Cleanup]_vars

\* an operation emptied a Dep and its key is gone from the key-map
C3_Witness ==
    /\ cleaned # <<>>
    /\ \E k \in Keys : targetMap[k] = 0 /\ \E e \in Effects : k \in runs[e].ever

\* C9: the scheduler of an effect without allowRecurse is never enqueued while
\* the effect is running (so not by its own write); and when a top level
\* write to a key the effect subscribes to has been processed, with no other
\* write than the effect's own, its fn has run exactly once.
C9_SelfTrigger ==
    /\ \A p \in pushed : ~allowRecurse(p.e) => p.runnings = 0
    /\ \A e \in Effects :
          ( /\ stack = <<>>
            /\ ext.key # NoKey
            /\ e \in ext.subs
            /\ ~allowRecurse(e)
            /\ \A w \in ext.writers : w.e = e
            /\ ~ext.other ) => ext.ran[e] = 1

(***************************************************************************)
(* The scheduler's steps.  calls holds the frame of flushJobs (phase walk: *)
(* in its for loop; post: in the loop of flushPostFlushCbs, called from    *)
(* its finally block; tail: behind that call) and, above it, the frame of  *)
(* the job or callback being run.  User code is the task that runs while   *)
(* no flush does, and the body of a job or callback.                       *)
(***************************************************************************)
STop == calls[Len(calls)]
InJob == calls # <<>> /\ STop.kind = "job"
SUser == calls = <<>> \/ InJob
InPhase(ph) == calls # <<>> /\ STop.kind = "flushJobs" /\ STop.phase = ph
Caller == IF calls = <<>> THEN "task" ELSE STop.j
SBound ==
    CASE scene = "loop" -> MaxLoopOps
      [] scene = "pre" -> MaxPreOps
      [] OTHER -> MaxSchedOps
SetPhase(ph) == [calls EXCEPT ![Len(calls)].phase = ph]
JobFrame(j, via) ==
    [kind |-> "job", j |-> j, via |-> via,
     fresh |-> scene = "loop" /\ j = LoopJob /\ via = "queue",
     pc |-> IF scene = "watch" THEN "start" ELSE "cb", newValue |-> 0]

\* the for loop of flushJobs is running the job at flushIndex
Walking == \E i \in 1..Len(calls) : calls[i].kind = "flushJobs" /\ calls[i].phase = "walk"

\* j waits in queue for its turn
Pending(s, j) == includes(s.queue, j, IF Walking THEN s.flushIndex + 1 ELSE 0)

SCommit(s0) ==
    \E s \in {s0} :
    /\ isFlushing' = s.isFlushing
    /\ isFlushPending' = s.isFlushPending
    /\ queue' = s.queue
    /\ flushIndex' = s.flushIndex
    /\ pendingPostFlushCbs' = s.pendingPostFlushCbs
    /\ activePostFlushCbs' = s.activePostFlushCbs
    /\ postFlushIndex' = s.postFlushIndex
    /\ microtasks' = s.microtasks
    /\ currentFlushPromise' = s.currentFlushPromise
    /\ ticks' = s.ticks
    /\ postRan' = s.postRan
    /\ postBounds' = s.postBounds
    /\ errors' = s.errors
    /\ invalidated' = s.invalidated
    /\ watcher' = s.watcher
    /\ seen' = s.seen
    /\ reported' = s.reported
    /\ UNCHANGED <<rvars, cvars, dev>>

\* history of a queueJob(j) call that took the scheduler from Sched to s
Requeued(s, j) ==
    IF s.queue # queue /\ isFlushing /\ invoked[j] >= 1
    THEN {[j |-> j, by |-> Caller]} ELSE {}

\* history of a queueJob(j) call: the running job calls it on itself
SelfCall(j) == IF Caller = j THEN {j} ELSE {}

\* queueJob(j) that calls the job at once
QueueJob_Sync(j) ==
    /\ SUser
    /\ sops < SBound
    /\ SCommit(Sched)
    /\ calls' = Append(calls, JobFrame(j, "sync"))
    /\ invoked' = [invoked EXCEPT ![j] = @ + 1]
    /\ sops' = sops + 1
    /\ UNCHANGED <<jobActive, requeued, selfCalled, maxId, owed>>

\* user code calls queueJob(j)
QueueJob(j) ==
    /\ SUser
    /\ sops < SBound
    /\ LET s == queueJob(Sched, j)
       IN  /\ SCommit(s)
           /\ requeued' = requeued \cup Requeued(s, j)
    /\ selfCalled' = selfCalled \cup SelfCall(j)
    /\ sops' = sops + 1
    /\ UNCHANGED <<jobActive, calls, invoked, maxId, owed>>

\* user code mutates state that the watcher w2 and the render job r2 of
\* component 2 both depend on: their schedulers call queueJob, in either order
Mutate(a, b) ==
    /\ SUser
    /\ sops < SBound
    /\ LET s1 == queueJob(Sched, a)
           s == queueJob(s1, b)
       IN  /\ SCommit(s)
           /\ requeued' = requeued \cup Requeued(s1, a) \cup
                              (IF s.queue # s1.queue /\ isFlushing /\ invoked[b] >= 1
                               THEN {[j |-> b, by |-> Caller]} ELSE {})
           /\ owed' = IF Pending(s, a) /\ Pending(s, b) /\ jobActive[a] /\ jobActive[b]
                      THEN owed \cup {JobId(a)} ELSE owed
    /\ selfCalled' = selfCalled \cup SelfCall(a) \cup SelfCall(b)
    /\ sops' = sops + 1
    /\ UNCHANGED <<jobActive, calls, invoked, maxId>>

\* user code calls queuePostFlushCb(cb)
QueuePostFlushCb(cb) ==
    /\ SUser
    /\ sops < SBound
    /\ SCommit(queuePostFlushCb(Sched, cb))
    /\ sops' = sops + 1
    /\ UNCHANGED <<jobActive, calls, invoked, requeued, selfCalled, maxId, owed>>

\* user code calls invalidateJob(j)
InvalidateJob(j) ==
    /\ SUser
    /\ sops < SBound
    /\ LET s == invalidateJob(Sched, j)
       IN  /\ SCommit([s EXCEPT !.invalidated = [j |-> j, waited |-> Pending(Sched, j)]])
           /\ owed' = IF pre(j) /\ ~Pending(s, j) THEN owed \ {JobId(j)} ELSE owed
    /\ sops' = sops + 1
    /\ UNCHANGED <<jobActive, calls, invoked, requeued, selfCalled, maxId>>

\* user code sets job.active = false (the job's effect is stopped)
Deactivate(j) ==
    /\ SUser
    /\ sops < SBound
    /\ jobActive[j]
    /\ jobActive' = [jobActive EXCEPT ![j] = FALSE]
    /\ owed' = IF j \in Jobs THEN owed \ {JobId(j)} ELSE owed
    /\ sops' = sops + 1
    /\ SCommit(Sched)
    /\ UNCHANGED <<calls, invoked, requeued, selfCalled, maxId>>

\* the microtask scheduled by queueFlush starts: flushJobs()
FlushJobs ==
    /\ calls = <<>>
    /\ microtasks > 0
    /\ ~TickReady(ticks)
    /\ SCommit(flushJobsEnter([Sched EXCEPT !.microtasks = @ - 1, !.seen = NoSeen,
                                            !.reported = NoSeen, !.errors = <<>>]))
    /\ calls' = <<[kind |-> "flushJobs", phase |-> "walk"]>>
    /\ invoked' = NoSeen
    /\ requeued' = {}
    /\ selfCalled' = {}
    /\ maxId' = 0
    /\ UNCHANGED <<jobActive, sops, owed>>

\* check(job): checkRecursiveUpdates, in a __DEV__ build only
check(s, job) == IF dev THEN checkRecursiveUpdates(s, job) ELSE [s |-> s, skip |-> FALSE]

\* one turn of the for loop of flushJobs that calls the job
WalkInvoke ==
    /\ InPhase("walk")
    /\ flushIndex < Len(queue)
    /\ LET job == queue[flushIndex + 1]
           c == check(Sched, job)
       IN  /\ jobActive[job]
           /\ ~c.skip
           /\ invoked[job] < MaxInvoked
           /\ SCommit(c.s)
           /\ calls' = Append(calls, JobFrame(job, "queue"))
           /\ invoked' = [invoked EXCEPT ![job] = @ + 1]
           /\ maxId' = IF getId(job) > maxId THEN getId(job) ELSE maxId
           /\ owed' = IF pre(job) THEN owed \ {JobId(job)} ELSE owed
    /\ UNCHANGED <<jobActive, sops, requeued, selfCalled>>

\* one turn of the for loop of flushJobs that does not call the job
WalkSkip ==
    /\ InPhase("walk")
    /\ flushIndex < Len(queue)
    /\ LET job == queue[flushIndex + 1]
           c == IF jobActive[job] THEN check(Sched, job) ELSE [s |-> Sched, skip |-> TRUE]
       IN  /\ c.skip
           /\ SCommit([c.s EXCEPT !.flushIndex = @ + 1])
           /\ owed' = IF pre(job) /\ ~Pending([c.s EXCEPT !.flushIndex = @ + 1], job)
                      THEN owed \ {JobId(job)} ELSE owed
    /\ UNCHANGED <<jobActive, calls, sops, invoked, requeued, selfCalled, maxId>>

\* the finally block entered from any turn of the for loop
WalkEnd_Early ==
    /\ InPhase("walk")
    /\ LET s == flushPostFlushCbsEnter([Sched EXCEPT !.flushIndex = 0, !.queue = <<>>])
       IN  /\ SCommit(s)
           /\ calls' = SetPhase(IF s.activePostFlushCbs # <<>> THEN "post" ELSE "tail")
    /\ UNCHANGED <<jobActive, sops, invoked, requeued, selfCalled, maxId, owed>>

\* the for loop of flushJobs ends: the finally block up to the loop of
\* flushPostFlushCbs
WalkEnd ==
    /\ InPhase("walk")
    /\ flushIndex >= Len(queue)
    /\ LET s == flushPostFlushCbsEnter([Sched EXCEPT !.flushIndex = 0, !.queue = <<>>])
       IN  /\ SCommit(s)
           /\ calls' = SetPhase(IF s.activePostFlushCbs # <<>> THEN "post" ELSE "tail")
    /\ UNCHANGED <<jobActive, sops, invoked, requeued, selfCalled, maxId, owed>>

\* one turn of the for loop of flushPostFlushCbs that calls the callback
PostInvoke ==
    /\ InPhase("post")
    /\ postFlushIndex < Len(activePostFlushCbs)
    /\ LET cb == activePostFlushCbs[postFlushIndex + 1]
           c == check(Sched, cb)
       IN  /\ ~c.skip
           /\ jobActive[cb]
           /\ invoked[cb] < MaxInvoked
           /\ SCommit([c.s EXCEPT !.postRan =
                           Append(@, [cb |-> cb,
                                      batch |-> Cardinality({k \in 1..Len(postBounds) :
                                                     postBounds[k] <= postFlushIndex})])])
           /\ calls' = Append(calls, JobFrame(cb, "post"))
           /\ invoked' = [invoked EXCEPT ![cb] = @ + 1]
    /\ UNCHANGED <<jobActive, sops, requeued, selfCalled, maxId, owed>>

\* one turn of the for loop of flushPostFlushCbs that does not call it
PostSkip ==
    /\ InPhase("post")
    /\ postFlushIndex < Len(activePostFlushCbs)
    /\ LET cb == activePostFlushCbs[postFlushIndex + 1]
           c == check(Sched, cb)
       IN  /\ c.skip \/ ~jobActive[cb]
           /\ SCommit([c.s EXCEPT !.postFlushIndex = @ + 1])
    /\ UNCHANGED <<jobActive, calls, sops, invoked, requeued, selfCalled, maxId, owed>>

\* the for loop of flushPostFlushCbs ends
PostEnd ==
    /\ InPhase("post")
    /\ postFlushIndex >= Len(activePostFlushCbs)
    /\ SCommit([Sched EXCEPT !.activePostFlushCbs = <<>>, !.postFlushIndex = 0])
    /\ calls' = SetPhase("tail")
    /\ UNCHANGED <<jobActive, sops, invoked, requeued, selfCalled, maxId, owed>>

\* the end of the finally block without the call of flushJobs(seen)
FlushTail_NoRecurse ==
    /\ InPhase("tail")
    /\ SCommit([Sched EXCEPT !.isFlushing = FALSE, !.currentFlushPromise = FALSE,
                            !.ticks = resolve(@)])
    /\ calls' = <<>>
    /\ owed' = {}
    /\ UNCHANGED <<jobActive, sops, invoked, requeued, selfCalled, maxId>>

\* the end of the finally block of flushJobs: flushJobs(seen) again when jobs
\* or callbacks arrived (nothing follows that call, so the frame is reused)
FlushTail ==
    /\ InPhase("tail")
    /\ LET s == [Sched EXCEPT !.isFlushing = FALSE, !.currentFlushPromise = FALSE]
       IN  IF s.queue # <<>> \/ s.pendingPostFlushCbs # <<>>
           THEN /\ SCommit(flushJobsEnter(s))
                /\ calls' = SetPhase("walk")
                /\ owed' = owed
           ELSE /\ SCommit([s EXCEPT !.ticks = resolve(@)])
                /\ calls' = <<>>
                /\ owed' = {}
    /\ UNCHANGED <<jobActive, sops, invoked, requeued, selfCalled, maxId>>

\* in the scene "loop" the job LoopJob calls queueJob on itself in every run
SelfQueue ==
    /\ InJob
    /\ STop.fresh
    /\ LET s == queueJob(Sched, STop.j)
       IN  /\ SCommit(s)
           /\ requeued' = requeued \cup Requeued(s, STop.j)
    /\ selfCalled' = selfCalled \cup {STop.j}
    /\ calls' = [calls EXCEPT ![Len(calls)].fresh = FALSE]
    /\ UNCHANGED <<jobActive, sops, invoked, maxId, owed>>

\* the job or callback returns; a job of queue may also throw, which
\* callWithErrorHandling catches and reports
JobReturn ==
    /\ InJob
    /\ ~STop.fresh
    /\ SCommit(IF STop.via = "queue" THEN [Sched EXCEPT !.flushIndex = @ + 1]
               ELSE IF STop.via = "post" THEN [Sched EXCEPT !.postFlushIndex = @ + 1]
               ELSE Sched)
    /\ calls' = SubSeq(calls, 1, Len(calls) - 1)
    /\ UNCHANGED <<jobActive, sops, invoked, requeued, selfCalled, maxId, owed>>

\* a post-flush callback calls flushPostFlushCbs(): the loop is running, so
\* the call adds the pending callbacks to activePostFlushCbs and returns
FlushPostFlushCbs ==
    /\ InJob
    /\ STop.via = "post"
    /\ sops < SBound
    /\ SCommit(flushPostFlushCbsEnter(Sched))
    /\ sops' = sops + 1
    /\ UNCHANGED <<jobActive, calls, invoked, requeued, selfCalled, maxId, owed>>

(***************************************************************************)
(* watch(source, cb, options) for a ref source: doWatch.  The getter is    *)
(* () => source.value, so a run of the effect is one step, in which        *)
(* nothing triggers and _runnings is 0 before and after.                   *)
(***************************************************************************)
hasChanged(newValue, oldValue) == newValue # oldValue

\* the job of the watcher, by the flush option
WatchJob(flush) == CASE flush = "pre" -> "w2" [] flush = "post" -> "wp" [] OTHER -> "ws"

\* effect.run(): the getter reads the source, and the active effect is
\* tracked by the Dep of the source; the value returned is w.source
effectRun(w) ==
    [w EXCEPT !.dirtyLevel = NotDirty,
              !.tracked = @ \/ w.active,
              !.getterRuns = @ + 1,
              !.ranStopped = @ \/ w.stopped]

\* unwatch(): effect.stop()
unwatch(w) ==
    IF w.active
    THEN [w EXCEPT !.tracked = FALSE, !.active = FALSE, !.stopped = TRUE]
    ELSE [w EXCEPT !.stopped = TRUE]

\* triggerEffects(dep, Dirty) for the Dep of the source: the watcher after
\* the loop, and whether its scheduler was pushed
triggerWatcher(w) ==
    LET marked == IF w.dirtyLevel < Dirty /\ w.tracked
                  THEN [w EXCEPT !.shouldSchedule = @ \/ w.dirtyLevel = NotDirty,
                                 !.dirtyLevel = Dirty]
                  ELSE w
    IN  IF marked.shouldSchedule /\ marked.tracked
        THEN [w |-> [marked EXCEPT !.shouldSchedule = FALSE], push |-> TRUE]
        ELSE [w |-> marked, push |-> FALSE]

\* the job without the test of effect.active
job_NoActive(w) ==
    IF ~(w.dirtyLevel >= Dirty)
    THEN [w |-> w, call |-> FALSE, newValue |-> 0]
    ELSE IF hasChanged(w.source, w.oldValue)
         THEN [w |-> [effectRun(w) EXCEPT !.log =
                         Append(@, [newValue |-> w.source,
                                    oldValue |-> IF w.oldValue = INITIAL_WATCHER_VALUE
                                                 THEN Undefined ELSE w.oldValue])],
               call |-> TRUE, newValue |-> w.source]
         ELSE [w |-> effectRun(w), call |-> FALSE, newValue |-> w.source]

\* the job up to the call of cb: the watcher, whether cb is called, newValue
job(w) ==
    IF ~w.active \/ ~(w.dirtyLevel >= Dirty)
    THEN [w |-> w, call |-> FALSE, newValue |-> 0]
    ELSE IF hasChanged(w.source, w.oldValue)
         THEN [w |-> [effectRun(w) EXCEPT !.log =
                         Append(@, [newValue |-> w.source,
                                    oldValue |-> IF w.oldValue = INITIAL_WATCHER_VALUE
                                                 THEN Undefined ELSE w.oldValue])],
               call |-> TRUE, newValue |-> w.source]
         ELSE [w |-> effectRun(w), call |-> FALSE, newValue |-> w.source]

\* user code of the scene "watch": a task, or the user callback
WUser == calls = <<>> \/ (InJob /\ STop.pc = "cb")

\* a task calls watch(source, cb, {flush, immediate, once})
DoWatch(flush, immediate, once) ==
    /\ calls = <<>>
    /\ ~watcher.created
    /\ sops < SBound
    /\ LET w == [watcher EXCEPT !.created = TRUE, !.flush = flush,
                                !.immediate = immediate, !.once = once]
       IN  IF immediate
           THEN /\ SCommit([Sched EXCEPT !.watcher = w])
                /\ calls' = <<JobFrame(WatchJob(flush), "immediate")>>
           ELSE /\ SCommit([Sched EXCEPT !.watcher =
                               [effectRun(w) EXCEPT !.oldValue = w.source,
                                                    !.seed = w.source]])
                /\ calls' = calls
    /\ sops' = sops + 1
    /\ UNCHANGED <<jobActive, invoked, requeued, selfCalled, maxId, owed>>

\* user code sets the source to another value: trigger, and the scheduler
\* of the watcher when resetScheduling runs it
WatchWrite(v) ==
    /\ WUser
    /\ sops < SBound
    /\ hasChanged(v, watcher.source)
    /\ LET t == triggerWatcher([watcher EXCEPT !.source = v])
           s == [Sched EXCEPT !.watcher = t.w]
       IN  IF ~t.push
           THEN SCommit(s) /\ calls' = calls
           ELSE IF watcher.flush = "sync"
                THEN SCommit(s) /\ calls' = Append(calls, JobFrame(WatchJob("sync"), "sync"))
                ELSE IF watcher.flush = "post"
                     THEN SCommit(queuePostFlushCb(s, WatchJob("post"))) /\ calls' = calls
                     ELSE SCommit(queueJob(s, WatchJob("pre"))) /\ calls' = calls
    /\ sops' = sops + 1
    /\ UNCHANGED <<jobActive, invoked, requeued, selfCalled, maxId, owed>>

\* user code calls the stop handle
WatchStop ==
    /\ WUser
    /\ sops < SBound
    /\ watcher.created
    /\ SCommit([Sched EXCEPT !.watcher = unwatch(@)])
    /\ sops' = sops + 1
    /\ UNCHANGED <<jobActive, calls, invoked, requeued, selfCalled, maxId, owed>>

\* the job runs up to the call of cb, or to its return
WatchBody ==
    /\ InJob
    /\ STop.pc = "start"
    /\ LET r == job(watcher)
       IN  /\ SCommit([Sched EXCEPT !.watcher = r.w])
           /\ calls' = [calls EXCEPT ![Len(calls)].pc = IF r.call THEN "cb" ELSE "done",
                                     ![Len(calls)].newValue = r.newValue]
    /\ UNCHANGED <<jobActive, sops, invoked, requeued, selfCalled, maxId, owed>>

\* the user callback returns: unwatch() with once, then oldValue = newValue
CbReturn ==
    /\ InJob
    /\ scene = "watch"
    /\ STop.pc = "cb"
    /\ SCommit([Sched EXCEPT !.watcher =
                   [(IF watcher.once THEN unwatch(watcher) ELSE watcher)
                       EXCEPT !.oldValue = STop.newValue, !.returned = @ + 1]])
    /\ calls' = [calls EXCEPT ![Len(calls)].pc = "done"]
    /\ UNCHANGED <<jobActive, sops, invoked, requeued, selfCalled, maxId, owed>>

\* the job of the watcher returns
WatchReturn ==
    /\ InJob
    /\ STop.pc = "done"
    /\ JobReturn

\* the for loop of flushPreFlushCbs is at the top of the call stack
InPre == calls # <<>> /\ STop.kind = "flushPreFlushCbs"

\* the instances flushPreFlushCbs is called with: 0 for none
Instances == {0, 2}

\* user code (the renderer) calls flushPreFlushCbs(instance): seen is a new
\* Map, and i starts behind the running job when a flush is running
FlushPreFlushCbs(instance) ==
    /\ SUser
    /\ sops < SBound
    /\ SCommit(Sched)
    /\ calls' = Append(calls, [kind |-> "flushPreFlushCbs", instance |-> instance,
                               i |-> IF isFlushing THEN flushIndex + 1 ELSE 0,
                               seen |-> NoSeen])
    /\ sops' = sops + 1
    /\ UNCHANGED <<jobActive, invoked, requeued, selfCalled, maxId, owed>>

\* whether the turn of the for loop of flushPreFlushCbs takes cb, before
\* the recursion check
Taken(cb) == pre(cb) /\ (STop.instance = 0 \/ JobId(cb) = STop.instance)

\* checkRecursiveUpdates(seen, cb) with the Map of the flushPreFlushCbs call
preCheck(cb) == check([Sched EXCEPT !.seen = STop.seen], cb)

\* one turn of the for loop of flushPreFlushCbs that calls cb: the job is
\* spliced out of queue and called, whatever its active flag is
PreInvoke ==
    /\ InPre
    /\ STop.i < Len(queue)
    /\ LET cb == queue[STop.i + 1]
           c == preCheck(cb)
       IN  /\ Taken(cb)
           /\ ~c.skip
           /\ invoked[cb] < MaxInvoked
           /\ SCommit([c.s EXCEPT !.seen = seen, !.queue = spliceOut(@, STop.i)])
           /\ calls' = Append([calls EXCEPT ![Len(calls)].seen = c.s.seen],
                              JobFrame(cb, "pre"))
           /\ invoked' = [invoked EXCEPT ![cb] = @ + 1]
           /\ owed' = owed \ {JobId(cb)}
    /\ UNCHANGED <<jobActive, sops, requeued, selfCalled, maxId>>

\* one turn of the for loop of flushPreFlushCbs that leaves the job in queue
PreSkip ==
    /\ InPre
    /\ STop.i < Len(queue)
    /\ LET cb == queue[STop.i + 1]
           c == IF Taken(cb) THEN preCheck(cb) ELSE [s |-> Sched, skip |-> TRUE]
       IN  /\ c.skip
           /\ SCommit([c.s EXCEPT !.seen = seen])
           /\ calls' = [calls EXCEPT ![Len(calls)].i = @ + 1,
                                     ![Len(calls)].seen = c.s.seen]
    /\ UNCHANGED <<jobActive, sops, invoked, requeued, selfCalled, maxId, owed>>

\* the for loop of flushPreFlushCbs ends
PreEnd ==
    /\ InPre
    /\ STop.i >= Len(queue)
    /\ SCommit(Sched)
    /\ calls' = SubSeq(calls, 1, Len(calls) - 1)
    /\ UNCHANGED <<jobActive, sops, invoked, requeued, selfCalled, maxId, owed>>

\* user code calls nextTick(fn)
NextTick ==
    /\ SUser
    /\ sops < SBound
    /\ Len(ticks) < MaxTicks
    /\ SCommit(nextTick(Sched))
    /\ sops' = sops + 1
    /\ UNCHANGED <<jobActive, calls, invoked, requeued, selfCalled, maxId, owed>>

\* the microtask of the first callback of nextTick that is one: fn runs
RunTick ==
    /\ calls = <<>>
    /\ TickReady(ticks)
    /\ LET i == CHOOSE k \in 1..Len(ticks) :
                    /\ ticks[k].ready /\ ~ticks[k].ran
                    /\ \A n \in 1..(k - 1) : ticks[n].ran \/ ~ticks[n].ready
       IN  SCommit([Sched EXCEPT !.ticks[i].ran = TRUE])
    /\ UNCHANGED <<jobActive, calls, sops, invoked, requeued, selfCalled, maxId, owed>>

\* the error code flushJobs gives callWithErrorHandling for the job
ErrorCode(j) == IF hasInstance(j) THEN "COMPONENT_UPDATE" ELSE "SCHEDULER"

\* history of an error of the job at flushIndex, given to handleError: the
\* job, the code, the jobs and callbacks that wait, and the counts so far
Thrown(j) ==
    [j |-> j, code |-> ErrorCode(j),
     rest |-> {queue[i] : i \in (flushIndex + 2)..Len(queue)}
                  \cup {pendingPostFlushCbs[i] : i \in 1..Len(pendingPostFlushCbs)},
     at |-> invoked]

\* a job that throws, were the error to leave the for loop of flushJobs
JobThrow_Abort ==
    /\ InJob
    /\ ~STop.fresh
    /\ STop.via = "queue"
    /\ LET s == flushPostFlushCbsEnter([Sched EXCEPT !.flushIndex = 0, !.queue = <<>>,
                                                     !.errors = Append(@, Thrown(STop.j))])
       IN  /\ SCommit(s)
           /\ calls' = <<[kind |-> "flushJobs",
                          phase |-> IF s.activePostFlushCbs # <<>> THEN "post" ELSE "tail"]>>
    /\ UNCHANGED <<jobActive, sops, invoked, requeued, selfCalled, maxId, owed>>

\* a job of queue throws: callWithErrorHandling catches the error and gives
\* it to handleError, and the for loop goes on
JobThrow ==
    /\ InJob
    /\ ~STop.fresh
    /\ STop.via = "queue"
    /\ SCommit([Sched EXCEPT !.flushIndex = @ + 1,
                             !.errors = Append(@, Thrown(STop.j))])
    /\ calls' = SubSeq(calls, 1, Len(calls) - 1)
    /\ UNCHANGED <<jobActive, sops, invoked, requeued, selfCalled, maxId, owed>>

\* a post-flush callback throws: flushPostFlushCbs calls cb() bare, so the
\* error leaves its for loop, the finally block of flushJobs and the
\* microtask; nothing behind the call is executed.  History: the error, with
\* the callbacks that wait behind postFlushIndex.
PostThrow ==
    /\ InJob
    /\ ~STop.fresh
    /\ STop.via = "post"
    /\ SCommit([Sched EXCEPT !.errors =
                   Append(@, [j |-> STop.j, code |-> "UNCAUGHT",
                              rest |-> {activePostFlushCbs[i] :
                                           i \in (postFlushIndex + 2)..Len(activePostFlushCbs)},
                              at |-> invoked])])
    /\ calls' = <<>>
    /\ UNCHANGED <<jobActive, sops, invoked, requeued, selfCalled, maxId, owed>>

\* the reactive state while the scheduler is exercised alone
RZero ==
    /\ targetMap = [k \in Keys |-> 0]
    /\ dep = [d \in DepIds |-> FreeDep]
    /\ eff = [e \in Effects |-> NewEffect]
    /\ activeEffect = NoEffect
    /\ shouldTrack = TRUE
    /\ pauseScheduleStack = 0
    /\ queueEffectSchedulers = <<>>
    /\ stack = <<>>
    /\ ops = 0
    /\ cleaned = <<>>
    /\ pushed = {}
    /\ drained = {}
    /\ ran = <<>>
    /\ runs = [e \in Effects |-> NoRuns]
    /\ ext = NoExt

SchedInit ==
    /\ scene \in {"mix", "loop"}
    /\ RZero
    /\ CZero
    /\ dev \in BOOLEAN
    /\ isFlushing = FALSE
    /\ isFlushPending = FALSE
    /\ queue = <<>>
    /\ flushIndex = 0
    /\ pendingPostFlushCbs = <<>>
    /\ activePostFlushCbs = <<>>
    /\ postFlushIndex = 0
    /\ microtasks = 0
    /\ currentFlushPromise = FALSE
    /\ ticks = <<>>
    /\ postRan = <<>>
    /\ postBounds = <<>>
    /\ errors = <<>>
    /\ invalidated = NoCall
    /\ watcher = NoWatcher
    /\ seen = NoSeen
    /\ jobActive = [j \in AllJobs |-> TRUE]
    /\ calls = <<>>
    /\ sops = 0
    /\ invoked = NoSeen
    /\ reported = NoSeen
    /\ requeued = {}
    /\ selfCalled = {}
    /\ maxId = 0
    /\ owed = {}

SchedNext ==
    \/ \E j \in Jobs : QueueJob(j)
    \/ Mutate("w2", "r2")
    \/ Mutate("r2", "w2")
    \/ \E cb \in MixCbs : QueuePostFlushCb(cb)
    \/ \E j \in Jobs : InvalidateJob(j)
    \/ \E j \in Jobs \cup MixCbs : Deactivate(j)
    \/ FlushJobs
    \/ WalkInvoke
    \/ WalkSkip
    \/ WalkEnd
    \/ PostInvoke
    \/ PostSkip
    \/ PostEnd
    \/ FlushTail
    \/ SelfQueue
    \/ JobReturn

SchedSpec == SchedInit /\ [][SchedNext]_vars

\* the scheduler with nextTick, in the scene "mix"
TickInit == SchedInit /\ scene = "mix"

TickNext ==
    \/ \E j \in Jobs : QueueJob(j)
    \/ \E cb \in MixCbs : QueuePostFlushCb(cb)
    \/ \E j \in Jobs : InvalidateJob(j)
    \/ \E j \in Jobs \cup MixCbs : Deactivate(j)
    \/ FlushJobs
    \/ WalkInvoke
    \/ WalkSkip
    \/ WalkEnd
    \/ PostInvoke
    \/ PostSkip
    \/ PostEnd
    \/ FlushTail
    \/ JobReturn
    \/ NextTick
    \/ RunTick

TickSpec == TickInit /\ [][TickNext]_vars

\* the scheduler with three post-flush callbacks and a job, all active
PostInit == scene = "post" /\ RZero /\ CZero /\ SZero

PostNext ==
    \/ \E j \in PostJobs : QueueJob(j)
    \/ \E cb \in Cbs : QueuePostFlushCb(cb)
    \/ FlushPostFlushCbs
    \/ FlushJobs
    \/ WalkInvoke
    \/ WalkEnd
    \/ PostInvoke
    \/ PostEnd
    \/ FlushTail
    \/ JobReturn

PostSpec == PostInit /\ [][PostNext]_vars

\* the scheduler with jobs that throw, in the scene "mix"
ErrInit == SchedInit /\ scene = "mix"

ErrNext ==
    \/ \E j \in Jobs : QueueJob(j)
    \/ \E cb \in MixCbs : QueuePostFlushCb(cb)
    \/ FlushJobs
    \/ WalkInvoke
    \/ WalkEnd
    \/ PostInvoke
    \/ PostEnd
    \/ FlushTail
    \/ JobReturn
    \/ JobThrow

ErrSpec == ErrInit /\ [][ErrNext]_vars

ErrFair == ErrSpec /\ WF_vars(ErrNext)

\* one watcher of a ref, with any options
WatchInit == scene = "watch" /\ RZero /\ CZero /\ SZero

WatchNext ==
    \/ \E flush \in {"pre", "post", "sync"}, immediate \in BOOLEAN, once \in BOOLEAN :
           DoWatch(flush, immediate, once)
    \/ \E v \in 0..MaxVal : WatchWrite(v)
    \/ WatchStop
    \/ WatchBody
    \/ CbReturn
    \/ WatchReturn
    \/ FlushJobs
    \/ WalkInvoke
    \/ WalkEnd
    \/ PostInvoke
    \/ PostEnd
    \/ FlushTail

WatchSpec == WatchInit /\ [][WatchNext]_vars

\* the scheduler with flushPreFlushCbs, in a __DEV__ build
PreInit == scene = "pre" /\ RZero /\ CZero /\ SZero

PreNext ==
    \/ \E j \in PreJobs : QueueJob(j)
    \/ \E j \in PreJobs : Deactivate(j)
    \/ \E instance \in Instances : FlushPreFlushCbs(instance)
    \/ PreInvoke
    \/ PreSkip
    \/ PreEnd
    \/ FlushJobs
    \/ WalkInvoke
    \/ WalkSkip
    \/ WalkEnd
    \/ FlushTail
    \/ JobReturn

PreSpec == PreInit /\ [][PreNext]_vars

\* the scheduler with jobs and post-flush callbacks that throw
ThrowNext == ErrNext \/ PostThrow

ThrowSpec == ErrInit /\ [][ThrowNext]_vars

ThrowFair == ThrowSpec /\ WF_vars(ThrowNext)

\* the event loop runs the microtask, and code that runs goes on running
SchedFair == SchedSpec /\ WF_vars(SchedNext)

(***************************************************************************)
(* Properties of the scheduler.                                            *)
(***************************************************************************)
\* this step invokes the job j of queue
Invokes(j) == invoked'[j] > invoked[j]

\* C4 as stated: a job without allowRecurse is invoked at most once in a flush
C4_Original == \A j \in Jobs : ~jobAllowRecurse(j) => invoked[j] <= 1

\* C4: a job without allowRecurse never enqueues itself while flushJobs runs
\* it (its own queueJob call leaves queue unchanged), so it is invoked more
\* than once in a flush only when another job or callback calls queueJob on
\* it after it was invoked.
C4_AtMostOncePerTick ==
    \A j \in Jobs : ~jobAllowRecurse(j) =>
        /\ \A r \in requeued : r.j = j => r.by # j
        /\ invoked[j] >= 2 => \E r \in requeued : r.j = j

\* a flush is over in which r1 called queueJob on itself and ran once
C4_Witness == calls = <<>> /\ "r1" \in selfCalled /\ invoked["r1"] = 1

\* C5 as stated: jobs are invoked in the order of their ids
C5_Original == [][\A j \in Jobs : Invokes(j) => getId(j) >= maxId]_vars

\* C5: when the for loop of flushJobs invokes a job, no job with a smaller id
\* waits behind it in queue: of two jobs waiting in queue, the one with the
\* smaller id is invoked first.
C5_ParentBeforeChild ==
    [][\A j \in Jobs : (Invokes(j) /\ InPhase("walk")) =>
          \A i \in (flushIndex + 2)..Len(queue) : getId(queue[i]) >= getId(j)]_vars

\* the child's render job runs after the parent's, both queued by the task
C5_Witness ==
    /\ InJob
    /\ STop.j = "r2"
    /\ queue = <<"r1", "r2">>
    /\ flushIndex = 1
    /\ invoked["r1"] = 1

\* C6: when a mutation queued the pre job and the render job of a component,
\* the render job is not invoked before the pre job was.
C6_PreBeforeRender ==
    [][\A j \in Jobs : (Invokes(j) /\ ~pre(j)) => JobId(j) \notin owed]_vars

\* one mutation queued w2 and r2; w2 ran, r2 is running
C6_Witness ==
    /\ InJob
    /\ STop.j = "r2"
    /\ sops = 1
    /\ queue = <<"w2", "r2">>
    /\ invoked["w2"] = 1
    /\ owed = {}

\* the flush has returned
Returns == calls # <<>> /\ calls' = <<>>

\* the recursion cap in a state, for a build with the check (d) or any build
CapState(d) ==
    d => \A j \in AllJobs :
             /\ invoked[j] <= RECURSION_LIMIT + 1
             /\ (\A r \in requeued : r.j = j => r.by = j) => reported[j] <= 1

\* the recursion cap in a step
CapStep(d) ==
    d => /\ \A j \in AllJobs :
               /\ Invokes(j) => seen[j] <= RECURSION_LIMIT
               /\ reported'[j] > reported[j] =>
                      /\ seen[j] > RECURSION_LIMIT
                      /\ invoked'[j] = invoked[j]
                      /\ calls' = calls
         /\ Returns => queue' = <<>>

\* C7 as stated, for every build: a job is never invoked once its count
\* exceeds the limit, it is skipped and the error reported once, and
\* flushJobs returns with an empty queue.
C7_Original == []CapState(TRUE) /\ [][CapStep(TRUE)]_vars

\* C7: in a __DEV__ build a job is never invoked once its count exceeds the
\* limit: it is skipped and the error reported, once per flush unless other
\* jobs enqueue it again; flushJobs returns, with an empty queue.
C7_RecursionCap ==
    /\ []CapState(dev)
    /\ [][CapStep(dev)]_vars
    /\ (dev /\ calls # <<>>) ~> (calls = <<>>)

\* the self-enqueuing job was skipped, the error reported once, the flush over
C7_Witness ==
    /\ dev
    /\ scene = "loop"
    /\ calls = <<>>
    /\ queue = <<>>
    /\ ~isFlushing
    /\ LoopJob \in selfCalled
    /\ reported[LoopJob] = 1

\* C8 as stated: a job is invoked at most RECURSION_LIMIT times in a flush
C8_Original == \A j \in AllJobs : invoked[j] <= RECURSION_LIMIT

\* C8: in a __DEV__ build a job is invoked at most RECURSION_LIMIT + 1 times
\* in a flush, and the error fires only for a job invoked that often.
C8_RecursionLimit ==
    dev => \A j \in AllJobs :
               /\ invoked[j] <= RECURSION_LIMIT + 1
               /\ reported[j] >= 1 => invoked[j] = RECURSION_LIMIT + 1

\* the error has fired for the job invoked RECURSION_LIMIT + 1 times
C8_Witness == dev /\ reported[LoopJob] = 1 /\ invoked[LoopJob] = RECURSION_LIMIT + 1

\* the scheduler is at rest
Quiescent ==
    /\ queue = <<>>
    /\ pendingPostFlushCbs = <<>>
    /\ activePostFlushCbs = <<>>
    /\ flushIndex = 0
    /\ ~isFlushing
    /\ ~isFlushPending

\* C13: when the outermost flushJobs call returns, queue and
\* pendingPostFlushCbs are empty, activePostFlushCbs is null, flushIndex is
\* 0 and isFlushing and isFlushPending are false, also when jobs and
\* post-flush callbacks enqueued jobs and callbacks during the flush.
C13_DrainToQuiescence == [][Returns => Quiescent']_vars

\* the flush is over in which a job that had run was enqueued again, and in
\* which a post-flush callback ran
C13_Witness ==
    /\ calls = <<>>
    /\ Quiescent
    /\ requeued # {}
    /\ invoked["p1"] >= 1
    /\ microtasks = 0

\* C14: a callback given to nextTick while a flush was pending or running
\* runs only after that flushJobs microtask has returned (which is with the
\* scheduler at rest, by C13: every job scheduled before the call was run or
\* dropped); a callback given to it while no flush was pending or running
\* runs as the next microtask, before any flushJobs microtask returns.
C14_NextTickAwaitsFlush ==
    /\ \A i \in 1..Len(ticks) : ticks[i].ran => (ticks[i].pending <=> ticks[i].drained)
    /\ \A i \in 1..Len(ticks) :
          (ticks[i].pending /\ ~ticks[i].drained) => (isFlushing \/ isFlushPending)

\* nextTick was called from a job of a running flush and its callback has
\* run, with the scheduler at rest behind the post-flush callback
C14_Witness ==
    /\ \E i \in 1..Len(ticks) : ticks[i].ran /\ ticks[i].pending
    /\ \E i \in 1..Len(ticks) : ticks[i].ran /\ ~ticks[i].pending
    /\ invoked["p1"] = 1
    /\ invoked["r1"] = 1
    /\ Quiescent

InPost == calls # <<>> /\ calls[1].kind = "flushJobs" /\ calls[1].phase = "post"

\* C16 as stated: when a post-flush callback is invoked, no job waits in queue
C16_Original == [][\A cb \in Cbs : Invokes(cb) => queue = <<>>]_vars

\* C16: a post-flush callback is invoked only by the loop of
\* flushPostFlushCbs, which flushJobs starts when its for loop has processed
\* every job in queue, those enqueued during the walk included, and has
\* emptied queue; the jobs in queue while the callbacks are invoked are those
\* the callbacks of this phase enqueue, and no job is invoked before the
\* phase ends.
C16_PostAfterMain ==
    [][/\ \A cb \in Cbs : Invokes(cb) => InPost
       /\ (~InPost /\ InPost') => (flushIndex >= Len(queue) /\ queue' = <<>>)
       /\ (InPost /\ InPost' /\ queue' # queue) =>
              (InJob /\ STop.via = "post" /\ sops' > sops)
       /\ InPost => \A j \in Jobs : ~Invokes(j)]_vars

\* the task queued r1, p1 and p2; r1 ran, then p1, which enqueued r1 again;
\* p2 is running while r1 waits in queue
C16_Witness ==
    /\ InJob
    /\ STop.j = "p2"
    /\ postRan = <<[cb |-> "p1", batch |-> 0], [cb |-> "p2", batch |-> 0]>>
    /\ invoked["r1"] = 1
    /\ queue = <<"r1">>

\* C17 as stated: the callbacks invoked in one post-flush phase, those a
\* nested flushPostFlushCbs call merged included, are in the order of their
\* ids (no id last), and none without allowRecurse is invoked twice
C17_Original ==
    \A i, j \in 1..Len(postRan) :
        i < j => /\ getId(postRan[i].cb) <= getId(postRan[j].cb)
                 /\ jobAllowRecurse(postRan[i].cb) \/ postRan[i].cb # postRan[j].cb

\* C17: the callbacks that one flushPostFlushCbs call took from
\* pendingPostFlushCbs are invoked in the order of their ids (no id last),
\* and none of them twice; those a nested call merged are invoked behind
\* the ones that were in activePostFlushCbs, in the order of their entries.
C17_PostFlushOrder ==
    /\ \A i, j \in 1..Len(postRan) :
          (i < j /\ postRan[i].batch = postRan[j].batch) =>
              /\ getId(postRan[i].cb) <= getId(postRan[j].cb)
              /\ postRan[i].cb # postRan[j].cb
    /\ \A i, j \in 1..Len(postRan) : i < j => postRan[i].batch <= postRan[j].batch
    /\ \A i \in 1..Len(postRan) : InPost => postRan[i].cb = activePostFlushCbs[i]

\* the loop has called p1, p2 and p3, which has no id, in this order
C17_Witness ==
    /\ InJob
    /\ postRan = <<[cb |-> "p1", batch |-> 0], [cb |-> "p2", batch |-> 0],
                   [cb |-> "p3", batch |-> 0]>>

\* the errors of the flush were handled, and what waited was run
C18_Handled ==
    /\ \A i \in 1..Len(errors) :
          /\ errors[i].code = (IF hasInstance(errors[i].j) THEN "COMPONENT_UPDATE"
                                ELSE "SCHEDULER")
          /\ invoked[errors[i].j] >= 1
          /\ calls = <<>> => \A x \in errors[i].rest : invoked[x] > errors[i].at[x]
    /\ calls = <<>> => ~isFlushing

\* the step in which a job throws
C18_Throw ==
    Len(errors') > Len(errors) =>
        /\ errors' = Append(errors, Thrown(STop.j))
        /\ queue' = queue
        /\ flushIndex' = flushIndex + 1
        /\ isFlushing'
        /\ calls' = <<[kind |-> "flushJobs", phase |-> "walk"]>>

\* C18: when a job in queue throws, the error goes to handleError with the
\* code COMPONENT_UPDATE if the job has an instance and SCHEDULER if not,
\* the for loop goes on with the next job, every job that waited in queue
\* and every callback that waited in pendingPostFlushCbs is invoked before
\* the flush returns, the flush returns, and isFlushing is false then.
C18_JobErrors ==
    /\ []C18_Handled
    /\ [][C18_Throw]_vars
    /\ (errors # <<>> /\ calls # <<>>) ~> (calls = <<>> /\ ~isFlushing)

\* r1 threw, then n; r2 and p1 ran after that and the flush has returned
C18_Witness ==
    /\ calls = <<>>
    /\ Len(errors) = 2
    /\ errors[1].j = "r1" /\ errors[1].code = "COMPONENT_UPDATE"
    /\ errors[1].rest = {"r2", "n", "p1"}
    /\ errors[2].j = "n" /\ errors[2].code = "SCHEDULER"
    /\ invoked["r2"] = 1
    /\ invoked["p1"] = 1
    /\ ~isFlushing

\* C19: if j is in queue and has not started running, whether the flush is
\* pending or in progress, then after invalidateJob(j) j is no longer in
\* queue (and so is not invoked by that flush unless it is enqueued again).
C19_InvalidateCancels ==
    invalidated.waited => ~Pending(Sched, invalidated.j)

\* C20: an effect that was stopped, also from inside its own fn, is, once no
\* run of it is on the call stack, inactive, a member of no Dep and has empty
\* deps (so that no later trigger reaches its fn or its scheduler).
C20_StopIsFinal ==
    \A e \in Effects :
        (~eff[e].active /\ ~OnStack(e)) =>
            /\ \A d \in DepIds : ~MapHas(dep[d].m, e)
            /\ eff[e].deps = <<>>
            /\ eff[e].depsLength = 0

\* C21: the scheduler never invokes a job whose active flag is false when
\* its turn arrives, in flushJobs, flushPostFlushCbs and flushPreFlushCbs.
C21_InactiveSkipped == [][\A j \in AllJobs : Invokes(j) => jobActive[j]]_vars

\* C22: with the option once the user callback is invoked at most once, and
\* the watcher is stopped when that invocation has returned, whatever the
\* flush option is and whatever the task and the callback write.
C22_WatchOnce ==
    watcher.once =>
        /\ Len(watcher.log) <= 1
        /\ watcher.returned >= 1 => ~watcher.active

\* a job of the watcher that sat in queue or in the post-flush callbacks
\* when unwatch was called returns at its first test in this step
C23_Returns ==
    (InJob /\ STop.pc = "start" /\ watcher.stopped) =>
        /\ watcher'.getterRuns = watcher.getterRuns
        /\ watcher'.log = watcher.log
        /\ calls' = [calls EXCEPT ![Len(calls)].pc = "done"]

C24_ChangeDetection ==
    \A i \in 1..Len(watcher.log) :
        /\ watcher.log[i].newValue # watcher.log[i].oldValue
        /\ watcher.log[i].oldValue =
               (IF i > 1 THEN watcher.log[i - 1].newValue
                ELSE IF watcher.immediate THEN Undefined ELSE watcher.seed)

\* a may stand before b in queue: by id, and the pre job first for equal ids
InOrder(a, b) ==
    \/ getId(a) < getId(b)
    \/ getId(a) = getId(b) /\ (pre(a) \/ ~pre(b))

\* C25: while flushJobs walks queue, the part of queue behind flushIndex is
\* sorted by id (no id counts as Infinity) and, for equal ids, pre jobs stand
\* before the others, also after every queueJob call of a running job.
C25_QueueOrder ==
    Walking => \A i, k \in (flushIndex + 2)..Len(queue) :
                   i < k => InOrder(queue[i], queue[k])

\* the occurrences of j in queue at the indices from on (from 0)
Occurs(j, from) == Cardinality({i \in (from + 1)..Len(queue) : queue[i] = j})

\* the dedup window of queueJob(j) holds j
InWindow(j) == Occurs(j, IF jobAllowRecurse(j) THEN flushIndex + 1 ELSE flushIndex) >= 1

\* the windows hold every job at most once
C26_Once ==
    \A j \in Jobs : Occurs(j, IF jobAllowRecurse(j) THEN flushIndex + 1 ELSE flushIndex) <= 1

\* a queueJob(j) call with j in its window changes nothing of the scheduler
C26_Frame ==
    \A j \in Jobs :
        (QueueJob(j) /\ InWindow(j)) =>
            /\ queue' = queue
            /\ microtasks' = microtasks
            /\ isFlushPending' = isFlushPending
            /\ currentFlushPromise' = currentFlushPromise

\* C26: a job without allowRecurse occurs at most once in queue at the
\* indices from flushIndex on (the whole queue when no flush runs), a job
\* with allowRecurse at most once behind flushIndex; a queueJob call whose
\* job is in that window leaves queue unchanged and schedules no flush.
C26_DedupWindow == []C26_Once /\ [][C26_Frame]_vars

\* C30: when a callback run by flushPostFlushCbs has thrown, then once the
\* microtask has ended the callbacks behind it have run, activePostFlushCbs
\* is null and isFlushing is false, and jobs and callbacks queued later have
\* a flush pending.
C30_PostErrors ==
    \A i \in 1..Len(errors) :
        (errors[i].code = "UNCAUGHT" /\ calls = <<>>) =>
            /\ \A x \in errors[i].rest : invoked[x] > errors[i].at[x]
            /\ activePostFlushCbs = <<>>
            /\ ~isFlushing
            /\ (queue # <<>> \/ pendingPostFlushCbs # <<>>) => isFlushPending

\* the for loop of flushJobs is inside the call of the job at flushIndex
Running == \E i \in 1..Len(calls) : calls[i].kind = "job" /\ calls[i].via = "queue"

\* the occurrences of j in queue that have not started running
Waits(j) == Occurs(j, IF Running THEN flushIndex + 1 ELSE flushIndex)

\* an occurrence of j leaves the waiting part of queue only when it is
\* invoked, removed by invalidateJob, inactive, or over the recursion limit
C27_Leaves ==
    \A j \in Jobs :
        Waits(j)' < Waits(j) =>
            \/ Invokes(j)
            \/ invalidated'.j = j
            \/ ~jobActive[j]
            \/ reported'[j] > reported[j]

\* a job enqueued during the walk is not inserted at or before flushIndex
C27_Behind ==
    (Running /\ Len(queue') > Len(queue)) =>
        SubSeq(queue', 1, flushIndex + 1) = SubSeq(queue, 1, flushIndex + 1)

\* C27: every job that queueJob inserts into queue is eventually invoked by
\* a flush unless invalidateJob removes it, it is inactive or the recursion
\* limit skips it: a waiting job leaves queue in no other way, a job
\* enqueued during a flush is inserted behind flushIndex, and every waiting
\* job eventually has its turn.
C27_NoLostJob ==
    /\ [][C27_Leaves]_vars
    /\ [][C27_Behind]_vars
    /\ \A j \in Jobs : (Waits(j) > 0) ~> (Waits(j) = 0)

\* j occupies one of the indexes 0..flushIndex of queue
Passed(j) == \E i \in 1..(flushIndex + 1) : i <= Len(queue) /\ queue[i] = j

\* q without the element at position p
Without(q, p) == SubSeq(q, 1, p - 1) \o SubSeq(q, p + 1, Len(q))

\* C28: invalidateJob(j) leaves queue unchanged when j is not in queue or is
\* at an index <= flushIndex; it removes at most one occurrence of j, no
\* other job, and leaves flushIndex as it is.
C28_InvalidateFrame ==
    [][\A j \in Jobs :
          InvalidateJob(j) =>
              /\ (Occurs(j, 0) = 0 \/ Passed(j)) => queue' = queue
              /\ \/ queue' = queue
                 \/ \E p \in 1..Len(queue) : queue[p] = j /\ queue' = Without(queue, p)
              /\ flushIndex' = flushIndex]_vars

\* invalidateJob was called on the job that is running, and queue still has it
C28_Witness ==
    /\ invalidated.j \in Jobs
    /\ ~invalidated.waited
    /\ Running
    /\ queue[flushIndex + 1] = invalidated.j

\* a call of flushJobs is on the stack
InFlush == \E i \in 1..Len(calls) : calls[i].kind = "flushJobs"

\* C29: isFlushing and isFlushPending are never both true, at most one
\* flushJobs microtask is scheduled at a time, and whenever queue or
\* pendingPostFlushCbs is non-empty outside a flush, a flush is pending.
C29_SingleFlush ==
    /\ ~(isFlushing /\ isFlushPending)
    /\ microtasks <= 1
    /\ (~InFlush /\ (queue # <<>> \/ pendingPostFlushCbs # <<>>)) => isFlushPending

\* the jobs flushPreFlushCbs(instance) is to pull out of queue
Matches(cb, instance) == pre(cb) /\ (instance = 0 \/ JobId(cb) = instance)

\* the jobs of q that flushPreFlushCbs(instance) leaves in queue, in order
Others(q, instance) ==
    LET Stays(cb) == ~Matches(cb, instance)
    IN  SelectSeq(q, Stays)

\* when flushPreFlushCbs returns, no matching pre job is in queue beyond
\* the start index
C31_Done ==
    (InPre /\ STop.i >= Len(queue)) =>
        \A k \in ((IF isFlushing THEN flushIndex + 1 ELSE 0) + 1)..Len(queue) :
            ~Matches(queue[k], STop.instance)

\* a turn of the for loop leaves the other jobs queued in the same order
C31_Frame ==
    (InPre /\ (PreInvoke \/ PreSkip \/ PreEnd)) =>
        Others(queue', STop.instance) = Others(queue, STop.instance)

\* C31: when flushPreFlushCbs(instance) returns, every pre job of queue
\* beyond the start index whose id matches the instance has been removed
\* and invoked, none remains even if the callbacks enqueued further pre
\* jobs, and the other jobs are still queued in the same relative order.
C31_PreComplete == []C31_Done /\ [][C31_Frame]_vars

Tracked == {i \in 1..Len(stack) : stack[i].kind = "run" /\ stack[i].tracked}

\* the effect of the innermost of them
Innermost ==
    IF Tracked = {} THEN NoEffect
    ELSE stack[CHOOSE i \in Tracked : \A j \in Tracked : j <= i].e

\* activeEffect, shouldTrack and _runnings are those of the runs in
\* progress: each run() that has ended has put back what it found
C33_Context ==
    /\ activeEffect = Innermost
    /\ shouldTrack
    /\ \A e \in PlainEffects :
           eff[e].runnings = Cardinality({i \in Tracked : stack[i].e = e})

\* a read adds edges to activeEffect only
C33_Edges ==
    \A k \in Keys :
        Read(k) =>
            \A e \in PlainEffects \ {activeEffect} :
                /\ eff'[e] = eff[e]
                /\ \A d \in DepIds : MapGet(dep'[d].m, e) = MapGet(dep[d].m, e)

Stale(d, e) == MapHas(dep[d].m, e) /\ MapGet(dep[d].m, e) # eff[e].trackId

\* a turn of the loop of triggerEffects for a stale entry changes nothing,
\* whatever the level is
C34_Turn ==
    \A d \in DepIds : \A i \in 1..Len(dep[d].m) :
        Stale(d, dep[d].m[i].e) =>
            \A dirtyLevel \in {MaybeDirty_ComputedSideEffect, MaybeDirty, Dirty} :
                notifyEffect(pauseScheduling(Heap), d, dirtyLevel, i) = pauseScheduling(Heap)

\* a write leaves the effects with a stale entry in the Dep of the key as
\* they are, does not enqueue their scheduler, and lowers no dirtyLevel
C34_Write ==
    \A k \in Keys :
        Write(k) =>
            /\ \A e \in Effects :
                   (targetMap[k] # 0 /\ Stale(targetMap[k], e)) =>
                       /\ eff'[e] = eff[e]
                       /\ Count(queueEffectSchedulers', e) = Count(queueEffectSchedulers, e)
            /\ \A e \in Effects : eff'[e].dirtyLevel >= eff[e].dirtyLevel

\* C34: for an effect whose entry in the Dep carries a trackId other than
\* the effect's current one, triggerEffects changes neither its dirtyLevel
\* nor its shouldSchedule, calls no trigger callback and enqueues no
\* scheduler; and triggerEffects lowers no effect's dirtyLevel.
C34_StaleInert == []C34_Turn /\ [][C34_Write]_vars

\* the fn of e1, in its only run since the task's last step, has written a
\* key in whose Dep the entry of e1 is stale
C34_Witness ==
    /\ scene = "self"
    /\ Len(stack) = 1
    /\ InFn
    /\ Top.e = "e1"
    /\ ext.ran["e1"] = 0
    /\ \E k \in Keys :
           /\ [e |-> "e1", k |-> k] \in ext.writers
           /\ targetMap[k] # 0
           /\ Stale(targetMap[k], "e1")

\* C35: between two assignments of NotDirty to an effect's dirtyLevel (by
\* run() or by the dirty getter), the notifications of trigger and
\* triggerEffects push the effect's scheduler at most once.
C35_OneScheduling == \A e \in Effects : eff[e].pushes <= 1 /\ ~eff[e].twice

\* an effect was notified again after its scheduler had been pushed and
\* before its dirtyLevel was assigned NotDirty
C35_Witness == \E e \in PlainEffects : eff[e].again

\* C36: when the dirty getter of an effect returns, the effect's
\* dirtyLevel is NotDirty or Dirty and shouldTrack has the value it had
\* before the query; QueryingDirty is held only while the query goes on.
C36_DirtyResolution ==
    \A e \in Effects :
        /\ eff[e].queried \subseteq {NotDirty, Dirty}
        /\ ~eff[e].untracked
        /\ eff[e].dirtyLevel # QueryingDirty

\* the entry of e in the Dep of the computed c is current
Subscribed(e, c) ==
    /\ cref[c].dep # 0
    /\ MapGet(dep[cref[c].dep].m, e) = eff[e].trackId

\* the cacheable computed that e1 reads, and the property it is computed from
Via == IF scene = "side" THEN "s" ELSE "z"
Source == IF scene = "side" THEN "b" ELSE "a"

\* e1 is subscribed to the computed, and the computed (through y, for z) to
\* the property: e1 depends on the property through the computed only
Settled ==
    /\ scene \in {"chain", "side"}
    /\ eff["e1"].active
    /\ Subscribed("e1", Via)
    /\ IF scene = "side" THEN Member("s", "b")
       ELSE Subscribed("z", "y") /\ Member("y", "a")

\* a write to the property in such a state: the scheduler of e1 is invoked;
\* if the value of the computed is as it was, e1 is NotDirty afterwards and
\* its fn is not run, otherwise the fn is run once
C37_Write ==
    \A v \in 0..MaxVal :
        (Settled /\ WriteKey(Source, v)) =>
            /\ drained' # {}
            /\ IF cref'[Via].value = cref[Via].value
               THEN Count(ran', "e1") = 0 /\ eff'["e1"].dirtyLevel = NotDirty
               ELSE Count(ran', "e1") = 1

\* C37: if an effect made by effect() depends on a source only through a
\* cacheable computed, and a write to the source leaves the computed's value
\* unchanged, the effect's scheduler is invoked, its dirty check gives
\* false, its dirtyLevel returns to NotDirty and its fn is not run; if the
\* value changed, the fn runs exactly once.
C37_ShortCircuit == [][C37_Write]_vars

\* C38: a read of c.value made while an effect is active is recorded as a
\* dependency of that effect before the getter of c is evaluated again (and
\* so before a Dirty notification is propagated to the subscribers of c).
C38_ReadOrder == \A c \in Computeds : ~hist[c].unrecorded

====
